---- MODULE Spec2Model ----
(***************************************************************************)
(* A model of the MBU "Udskrivning Fritvalg" robot: the EDI portal step    *)
(* pipeline (edi_portal_handler), the presence-gated actions of process,   *)
(* the polling wait primitives wait_for_control and                         *)
(* wait_for_control_to_disappear, and the steps built on them.              *)
(***************************************************************************)
EXTENDS Integers, Sequences, FiniteSets, TLC

VARIABLES
    \* ---- edi_portal_handler (edi_portal_handler.py) ----
    pipeline,       \* the ordered list of steps the loop runs
    h_pc,           \* position of the handler: start, main, tail, ret, returned, raised
    idx,            \* 1-based index of the step the loop is at
    skip_steps,     \* the local flag skip_steps
    receipt_path,   \* context.receipt_path
    executed,       \* observation: indexes of the steps called, in call order
    retval,         \* observation: what each called step returned
    failed_step,    \* observation: index of the step that raised (0: none)
    h_result,       \* the value edi_portal_handler returned
    h_error,        \* the exception edi_portal_handler raised
    \* ---- process (process.py) and the external record store ----
    concurrent,     \* whether two runs may be in progress at once
    now,            \* the clock, in months
    store,          \* the records of the Solteq Tand database
    runs_started,   \* how many runs have been started
    p_pc,           \* per worker: position of its run of process
    p_patient,      \* per worker: patient_cpr of the queue element, or "None"
    p_under16,      \* per worker: is_patient_under_16
    p_rem,          \* per worker: index into the reminders list
    p_outcome,      \* per worker: how the run ended
    p_looked,       \* observation: per worker and gate, what the lookup returned
    p_saw,          \* observation: per worker and gate, what the store held then
    p_invoked,      \* observation: per worker and gate, calls of the creation
    \* ---- wait_for_control (edi_portal_functions.py) ----
    w_pc,           \* position of the call: idle, loop, construct, exists_print,
                    \*   exists_if, sleep, returned, raised
    w_clock,        \* time.time(), in retry intervals
    w_end_time,     \* the local end_time
    w_present,      \* the user interface: whether the element exists now
    w_attempt,      \* observation: number of the polling attempt in progress
    w_first_hit,    \* observation: first attempt whose "if" query succeeded
    w_failed,       \* observation: whether some lookup attempt raised
    w_result,       \* what the call returned or raised
    \* ---- wait_for_control_to_disappear (edi_portal_functions.py) ----
    d_pc,           \* position of the call: idle, start, loop, construct,
                    \*   exists_if, sleep, returned, raised
    d_clock,        \* time.time(), in sleep intervals
    d_end_time,     \* the local end_time
    d_present,      \* the user interface: whether the element exists now
    d_seen_absent,  \* observation: a poll found the element absent
    d_result,       \* what the call returned or raised
    \* ---- edi_portal_upload_files (edi_portal_functions.py) ----
    u_pc,           \* position: idle, root_web_area, loop, check, returned, raised
    u_timeout,      \* the local timeout, the budget left in seconds
    element_gone,   \* the local flag element_gone
    u_checks,       \* observation: checks for the indicator begun
    u_found,        \* observation: checks that found the indicator
    u_result,       \* what the function returned or raised
    \* ---- edi_portal_get_journal_sent_receip: the table scan ----
    r_pc,           \* position: idle, start, for, decide, menu, save_clicked, raised
    table,          \* the sent-messages table, header row first
    row_count,      \* the local row_count
    row,            \* the loop variable row
    latest_matching_row,    \* the local latest_matching_row
    latest_date,    \* the local latest_date
    success_message,        \* the local success_message
    r_clicked,      \* observation: the row whose menu button was clicked
    r_result,       \* the exception the scan raised
    \* ---- edi_portal_get_journal_sent_receip: the download wait ----
    f_pc,           \* position: idle, start, loop, glob, sleep, returned, raised
    f_clock,        \* time.time(), in seconds
    start_time,     \* the local start_time
    f_file,         \* the Downloads folder: whether a Meddelelse*.pdf is there
    f_polls,        \* observation: polls begun
    f_first_seen,   \* observation: first poll at which the file was there
    f_result,       \* what the function returned or raised
    \* ---- process (process.py): the calls and exceptions of one run ----
    x_pc,           \* the place the run is at
    x_json,         \* queue_element.data, decoded
    queue_element_data, \* the data the run works on, NoData before the load
    queue_element,  \* the argument queue_element: "None" or "data"
    x_exc,          \* the exception on its way out, "-" for none
    x_first,        \* observation: the place and kind of the first error
    x_err_at,       \* observation: number of the call that raised it (0: none)
    x_calls,        \* observation: the places called, in order
    x_unclosed,     \* observation: open_edi_portal returned, no close called yet
    x_outcome,      \* "returned", or the kind of exception the caller gets
    \* ---- process_images_threaded (image_handler.py) ----
    i_pc,           \* position: idle, submit, collect, exit, returned, raised
    images,         \* images_data: for each image, whether its file exists
    i_next,         \* the image the submit loop is at
    task,           \* per image: "-", queued, running, done, failed
    i_seen,         \* the futures as_completed has yielded
    i_exc,          \* the exception on its way out of the with statement
    i_left,         \* observation: tasks unfinished when the failure was met
    \* ---- split_zip (zip_handler.py) ----
    z_pc,           \* position: idle, loop, write, returned
    file_infos,     \* the compressed sizes of the archive's entries, in order
    max_size,       \* the limit of a bucket
    z_i,            \* the entry the loop is at
    buckets,        \* the closed buckets, each a sequence of entries
    current_bucket, \* the bucket being filled
    current_size,   \* its total compressed size
    \* ---- cpr_to_birthdate, is_under_16 (helper_functions.py) ----
    c_pc,           \* position: idle, cpr_to_birthdate, age, returned, raised
    ssn,            \* the identifier, as its characters
    today,          \* datetime.now()
    birth_date,     \* what cpr_to_birthdate returned
    c_result,       \* what is_under_16 returned or raised
    \* ---- edi_portal_handler against the portal, run after run ----
    m_pc,           \* the step the run is at, or returned, raised, idle
    m_table,        \* the sent-messages table of the portal, header row first
    m_now,          \* datetime.now() of the run
    m_contractor,   \* extern_clinic_data[0]["contractorId"]
    m_run,          \* the number of the run
    m_check,        \* what edi_portal_is_patient_data_sent returned: True, False
    m_timed_out,    \* observation: a lookup of the check timed out
    m_written,      \* the subject written by edi_portal_add_content, or None
    m_sends,        \* observation: the times of the calls of edi_portal_send_message
    m_result,       \* what the handler returned or raised
    \* ---- initalization_checks (initalize.py) ----
    k_pc,           \* the method the checks are at, or returned, raised, idle
    k_db,           \* what the database, the queue item and the portal hold
    k_calls,        \* observation: the methods called, in order
    k_code,         \* the exception code of the BusinessError raised
    k_result,       \* returned, or the kind of the exception raised
    k_technical     \* observation: something else than a check's rule failed

hVars == <<pipeline, h_pc, idx, skip_steps, receipt_path, executed, retval,
           failed_step, h_result, h_error>>

pVars == <<concurrent, now, store, runs_started, p_pc, p_patient,
           p_under16, p_rem, p_outcome, p_looked, p_saw, p_invoked>>

wVars == <<w_pc, w_clock, w_end_time, w_present, w_attempt, w_first_hit,
           w_failed, w_result>>

dVars == <<d_pc, d_clock, d_end_time, d_present, d_seen_absent, d_result>>

uVars == <<u_pc, u_timeout, element_gone, u_checks, u_found, u_result>>

rVars == <<r_pc, table, row_count, row, latest_matching_row,
           latest_date, success_message, r_clicked, r_result>>

fVars == <<f_pc, f_clock, start_time, f_file, f_polls, f_first_seen, f_result>>

xVars == <<x_pc, queue_element, x_json, queue_element_data,
          x_exc, x_first, x_err_at,
           x_calls, x_unclosed, x_outcome>>

iVars == <<i_pc, images, i_next, task, i_seen, i_exc, i_left>>

zVars == <<z_pc, file_infos, max_size, z_i, buckets, current_bucket, current_size>>

cVars == <<c_pc, ssn, today, birth_date, c_result>>

mVars == <<m_pc, m_table, m_now, m_contractor, m_run, m_check, m_timed_out, m_written, m_sends, m_result>>

kVars == <<k_pc, k_db, k_calls, k_code, k_result, k_technical>>

vars == <<hVars, pVars, wVars, dVars, uVars, rVars, fVars, xVars, iVars, zVars, cVars, mVars, kVars>>

\* What each part leaves alone.
notHandler == <<pVars, wVars, dVars, uVars, rVars, fVars, xVars, iVars, zVars, cVars, mVars, kVars>>
notProcess == <<hVars, wVars, dVars, uVars, rVars, fVars, xVars, iVars, zVars, cVars, mVars, kVars>>
notWait == <<hVars, pVars, dVars, uVars, rVars, fVars, xVars, iVars, zVars, cVars, mVars, kVars>>
notDisappear == <<hVars, pVars, wVars, uVars, rVars, fVars, xVars, iVars, zVars, cVars, mVars, kVars>>
notUpload == <<hVars, pVars, wVars, dVars, rVars, fVars, xVars, iVars, zVars, cVars, mVars, kVars>>
notScan == <<hVars, pVars, wVars, dVars, uVars, fVars, xVars, iVars, zVars, cVars, mVars, kVars>>
notDownload == <<hVars, pVars, wVars, dVars, uVars, rVars, xVars, iVars, zVars, cVars, mVars, kVars>>
notRun == <<hVars, pVars, wVars, dVars, uVars, rVars, fVars, iVars, zVars, cVars, mVars, kVars>>
notImages == <<hVars, pVars, wVars, dVars, uVars, rVars, fVars, xVars, zVars, cVars, mVars, kVars>>
notZip == <<hVars, pVars, wVars, dVars, uVars, rVars, fVars, xVars, iVars, cVars, mVars, kVars>>
notCpr == <<hVars, pVars, wVars, dVars, uVars, rVars, fVars, xVars, iVars,
            zVars, mVars, kVars>>
notPortal == <<hVars, pVars, wVars, dVars, uVars, rVars, fVars, xVars,
               iVars, zVars, cVars, kVars>>
notChecks == <<hVars, pVars, wVars, dVars, uVars, rVars, fVars, xVars,
               iVars, zVars, cVars, mVars>>

-----------------------------------------------------------------------------
(* edi_portal_handler: the pipeline and its execution loop                  *)

\* A pipeline entry: the function the step calls, and the step object's
\* __name__ (every entry of the handler's list is a lambda).
Lambda(call) == [call |-> call, dunder_name |-> "<lambda>"]

EdiPipeline ==
    << Lambda("edi_portal_is_patient_data_sent"),
       Lambda("edi_portal_go_to_send_journal"),
       Lambda("edi_portal_click_next_button"),
       Lambda("edi_portal_lookup_contractor_id"),
       Lambda("edi_portal_choose_receiver"),
       Lambda("edi_portal_click_next_button"),
       Lambda("edi_portal_add_content"),
       Lambda("edi_portal_click_next_button"),
       Lambda("edi_portal_upload_files"),
       Lambda("edi_portal_click_next_button"),
       Lambda("edi_portal_click_next_button"),
       Lambda("edi_portal_send_message"),
       Lambda("edi_portal_get_journal_sent_receip"),
       Lambda("rename_file") >>

\* The five-step sequence of the pipeline's testable property: five named
\* callables, each free to return a truthy or a falsy value or to raise.
TestPipeline ==
    [i \in 1..5 |-> [call |-> "test_step", dunder_name |-> <<"step", i>>]]

Pipelines == {EdiPipeline, TestPipeline}

MaxPipelineLen == Len(EdiPipeline)

\* What a call can return (the value the lambda hands back to the loop).
ReturnValues(call) ==
    CASE call = "edi_portal_is_patient_data_sent" -> {"True", "False"}
      [] call = "test_step" -> {"True", "False", "None"}
      [] OTHER -> {"None"}

\* The exceptions a call can let through.
Raises(call) ==
    CASE call = "edi_portal_is_patient_data_sent" -> {"Exception"}
      [] call = "edi_portal_go_to_send_journal" -> {"TimeoutError"}
      [] call = "edi_portal_click_next_button" -> {"RuntimeError", "TimeoutError"}
      [] call = "edi_portal_lookup_contractor_id" -> {"TimeoutError"}
      [] call = "edi_portal_choose_receiver" -> {"TimeoutError"}
      [] call = "edi_portal_add_content" -> {"ValueError", "TimeoutError"}
      [] call = "edi_portal_upload_files" -> {"TimeoutError"}
      [] call = "edi_portal_send_message" -> {"TimeoutError"}
      [] call = "edi_portal_get_journal_sent_receip" ->
            {"RuntimeError", "FileNotFoundError", "TimeoutError"}
      [] call = "rename_file" -> {"FileNotFoundError", "OSError"}
      [] OTHER -> {"Exception"}

\* Python truthiness: True and an object without __bool__ or __len__ (a
\* control) are truthy; False and None are falsy.
Truthy(v) == v \in {"True", "control"}

\* pipeline[:-2] and pipeline[-2:]
MainRegion(p) == 1..(Len(p) - 2)
TailRegion(p) == (Len(p) - 1)..Len(p)

\* "Step {step.__name__ if hasattr(step, '__name__') else step} failed: {e}"
\* raised "from e".
StepFailed(step, e) ==
    [kind |-> "RuntimeError", step_name |-> step.dunder_name, cause |-> e]

\* The flag after a main-region step returned ret.
NextSkipNeverSet(skip, ret) == skip
NextSkip(skip, ret) == IF Truthy(ret) THEN TRUE ELSE skip

\* Whether the loop body calls the step, given the flag.
MainCallsIgnoringSkip(skip) == TRUE
MainCalls(skip) == ~skip

TailCallsUnlessSkip(skip) == ~skip
TailCalls(skip) == TRUE

\* The lambdas of the last two steps store their result in the context.
ReceiptAfter(call, rp) ==
    CASE call = "edi_portal_get_journal_sent_receip" -> "Downloads/Meddelelse.pdf"
      [] call = "rename_file" -> "Downloads/EDI Portal - patient_name.pdf"
      [] OTHER -> rp

HandlerInit ==
    /\ pipeline \in Pipelines
    /\ h_pc = "start"
    /\ idx = 0
    /\ skip_steps = FALSE
    /\ receipt_path = "None"
    /\ executed = << >>
    /\ retval = [i \in 1..MaxPipelineLen |-> "-"]
    /\ failed_step = 0
    /\ h_result = "-"
    /\ h_error = "-"

\* get_constant returned None: RuntimeError before any step.
ConstantMissing ==
    /\ h_pc = "start"
    /\ h_pc' = "raised"
    /\ h_error' = [kind |-> "RuntimeError", step_name |-> "-", cause |-> "-"]
    /\ UNCHANGED <<pipeline, idx, skip_steps, receipt_path, executed, retval,
                   failed_step, h_result>>
    /\ UNCHANGED notHandler

\* The constant is there: subject computed, pipeline built, skip_steps = False.
HandlerStart ==
    /\ h_pc = "start"
    /\ h_pc' = "main"
    /\ idx' = 1
    /\ skip_steps' = FALSE
    /\ UNCHANGED <<pipeline, receipt_path, executed, retval, failed_step,
                   h_result, h_error>>
    /\ UNCHANGED notHandler

AfterMain(i) == IF i + 1 \in MainRegion(pipeline) THEN "main" ELSE "tail"

\* One iteration of the first loop with the flag set: "continue".
MainSkip ==
    /\ h_pc = "main"
    /\ ~MainCalls(skip_steps)
    /\ idx' = idx + 1
    /\ h_pc' = AfterMain(idx)
    /\ UNCHANGED <<pipeline, skip_steps, receipt_path, executed, retval,
                   failed_step, h_result, h_error>>
    /\ UNCHANGED notHandler

\* One iteration of the first loop: the step is called and returns.
MainReturn ==
    /\ h_pc = "main"
    /\ MainCalls(skip_steps)
    /\ \E v \in ReturnValues(pipeline[idx].call) :
          /\ retval' = [retval EXCEPT ![idx] = v]
          /\ skip_steps' = NextSkip(skip_steps, v)
    /\ executed' = Append(executed, idx)
    /\ idx' = idx + 1
    /\ h_pc' = AfterMain(idx)
    /\ UNCHANGED <<pipeline, receipt_path, failed_step, h_result, h_error>>
    /\ UNCHANGED notHandler

\* One iteration of the first loop: the step is called and raises.
MainRaise ==
    /\ h_pc = "main"
    /\ MainCalls(skip_steps)
    /\ \E e \in Raises(pipeline[idx].call) :
          h_error' = StepFailed(pipeline[idx], e)
    /\ executed' = Append(executed, idx)
    /\ failed_step' = idx
    /\ h_pc' = "raised"
    /\ UNCHANGED <<pipeline, idx, skip_steps, receipt_path, retval, h_result>>
    /\ UNCHANGED notHandler

AfterTail(i) == IF i + 1 \in TailRegion(pipeline) THEN "tail" ELSE "ret"

\* One iteration of the second loop: the step is called and returns.
TailReturn ==
    /\ h_pc = "tail"
    /\ IF TailCalls(skip_steps)
         THEN /\ executed' = Append(executed, idx)
              /\ retval' = [retval EXCEPT ![idx] = "None"]
              /\ receipt_path' = ReceiptAfter(pipeline[idx].call, receipt_path)
         ELSE UNCHANGED <<executed, retval, receipt_path>>
    /\ idx' = idx + 1
    /\ h_pc' = AfterTail(idx)
    /\ UNCHANGED <<pipeline, skip_steps, failed_step, h_result, h_error>>
    /\ UNCHANGED notHandler

\* One iteration of the second loop: the step is called and raises.
TailRaise ==
    /\ h_pc = "tail"
    /\ TailCalls(skip_steps)
    /\ \E e \in Raises(pipeline[idx].call) :
          h_error' = StepFailed(pipeline[idx], e)
    /\ executed' = Append(executed, idx)
    /\ failed_step' = idx
    /\ h_pc' = "raised"
    /\ UNCHANGED <<pipeline, idx, skip_steps, receipt_path, retval, h_result>>
    /\ UNCHANGED notHandler

\* return context.receipt_path
HandlerReturn ==
    /\ h_pc = "ret"
    /\ h_result' = receipt_path
    /\ h_pc' = "returned"
    /\ UNCHANGED <<pipeline, idx, skip_steps, receipt_path, executed, retval,
                   failed_step, h_error>>
    /\ UNCHANGED notHandler

HandlerNext ==
    \/ ConstantMissing
    \/ HandlerStart
    \/ MainSkip
    \/ MainReturn
    \/ MainRaise
    \/ TailReturn
    \/ TailRaise
    \/ HandlerReturn

-----------------------------------------------------------------------------
(* process: the presence-gated actions against the external record store    *)

MaxTime == 3
MaxRuns == 2

Workers == {1, 2}
Patients == {"p1", "p2"}

\* relativedelta(months=1)
OneMonth == 1

Gates == {"event", "reminder16", "reminder22", "discharge", "journal",
          "receipt", "note"}

\* The gates whose lookup passes a creation-date lower bound.
WindowedGates == {"discharge", "journal", "receipt", "note"}

\* What identifies the record a gate looks for and creates.
Key(g, under16) ==
    CASE g = "event" -> "Afgang til klinik 751"
      [] g = "reminder16" -> "Husk 16 years"
      [] g = "reminder22" -> "Husk 22 years"
      [] g = "discharge" -> IF under16
                              THEN "Udskrivning til privat praksis 0-15"
                              ELSE "Udskrivning til privat praksis fra 16"
      [] g = "journal" -> "Journaludskrift"
      [] g = "receipt" -> "EDI Portal - patient_name"
      [] OTHER -> "Administrativt notat"

Keys == {Key(g, u) : g \in Gates, u \in BOOLEAN}

\* The month in which the patient turns 16.
Sixteenth(p) == IF p = "p1" THEN 2 ELSE 0

\* is_under_16(cpr) evaluated at time t
IsUnder16(p, t) == t < Sixteenth(p)

\* The reminders list built by create_booking_reminders.
Reminders(under16) ==
    IF under16 THEN <<"reminder16", "reminder22">> ELSE <<"reminder22">>

\* datetime.now() - relativedelta(months=1)
SinceSignFlipped(t) == t + OneMonth
Since(t) == t - OneMonth

\* The filters each lookup passes to the database.
LookupIgnoringDate(g, p, under16, t, st) ==
    {r \in st : r.patient = p /\ r.key = Key(g, under16)}
Lookup(g, p, under16, t, st) ==
    IF g \in WindowedGates
      THEN {r \in st : /\ r.patient = p
                       /\ r.key = Key(g, under16)
                       /\ r.created >= Since(t)}
      ELSE {r \in st : r.patient = p /\ r.key = Key(g, under16)}

\* "if not <lookup result>:"
ShouldCreateAlways(result) == TRUE
ShouldCreate(result) == result = {}

\* The calls of process in order; each gate is a lookup and a creation.
ProcOrder ==
    << "release_keys", "kill_application", "load", "open_patient",
       "initalization_checks", "is_under_16", "update_patient_info",
       "event_lookup", "event_create",
       "reminder_lookup", "reminder_create",
       "discharge_lookup", "discharge_create",
       "send_discharge_document", "get_images_from_romexis",
       "journal_lookup", "journal_create",
       "prepare_edi_portal_documents", "open_edi_portal",
       "edi_portal_handler", "close_edi_portal",
       "receipt_lookup", "receipt_create",
       "note_lookup", "note_create",
       "close_patient_window" >>

PosOf(pc) == CHOOSE i \in DOMAIN ProcOrder : ProcOrder[i] = pc

Succ(pc) == ProcOrder[PosOf(pc) + 1]

LookupSteps == {"event_lookup", "reminder_lookup", "discharge_lookup",
                "journal_lookup", "receipt_lookup", "note_lookup"}

CreateSteps == {"event_create", "reminder_create", "discharge_create",
                "journal_create", "receipt_create", "note_create"}

\* The calls that are neither a lookup nor a creation nor treated apart.
PlainSteps == {"release_keys", "kill_application", "open_patient",
               "initalization_checks", "update_patient_info",
               "send_discharge_document", "get_images_from_romexis",
               "prepare_edi_portal_documents", "open_edi_portal",
               "edi_portal_handler", "close_edi_portal"}

\* The gate a worker's run is at.
GateAt(w) ==
    CASE p_pc[w] \in {"event_lookup", "event_create"} -> "event"
      [] p_pc[w] \in {"reminder_lookup", "reminder_create"} ->
            Reminders(p_under16[w])[p_rem[w]]
      [] p_pc[w] \in {"discharge_lookup", "discharge_create"} -> "discharge"
      [] p_pc[w] \in {"journal_lookup", "journal_create"} -> "journal"
      [] p_pc[w] \in {"receipt_lookup", "receipt_create"} -> "receipt"
      [] OTHER -> "note"

\* Where the run goes once the gate it is at is dealt with.
AfterGate(w) ==
    CASE GateAt(w) = "event" -> "reminder_lookup"
      [] GateAt(w) \in {"reminder16", "reminder22"} ->
            IF p_rem[w] < Len(Reminders(p_under16[w]))
              THEN "reminder_lookup" ELSE "discharge_lookup"
      [] GateAt(w) = "discharge" -> "send_discharge_document"
      [] GateAt(w) = "journal" -> "prepare_edi_portal_documents"
      [] GateAt(w) = "receipt" -> "note_lookup"
      [] OTHER -> "close_patient_window"

RemAfterGate(w) ==
    IF GateAt(w) \in {"reminder16", "reminder22"}
         /\ p_rem[w] < Len(Reminders(p_under16[w]))
      THEN p_rem[w] + 1 ELSE p_rem[w]

\* What the store holds for a gate, told apart by age, whatever the lookup
\* filters on.
Seen(g, p, under16, t, st) ==
    LET match == {r \in st : r.patient = p /\ r.key = Key(g, under16)}
    IN  IF match = {} THEN "none"
        ELSE IF \E r \in match : t - r.created <= OneMonth THEN "recent"
        ELSE "old"

NoGate == [g \in Gates |-> "-"]
NoCalls == [g \in Gates |-> 0]

ProcInit(conc) ==
    /\ concurrent = conc
    /\ now = 0
    /\ store = {}
    /\ runs_started = 0
    /\ p_pc = [w \in Workers |-> "idle"]
    /\ p_patient = [w \in Workers |-> "None"]
    /\ p_under16 = [w \in Workers |-> FALSE]
    /\ p_rem = [w \in Workers |-> 1]
    /\ p_outcome = [w \in Workers |-> "-"]
    /\ p_looked = [w \in Workers |-> NoGate]
    /\ p_saw = [w \in Workers |-> NoGate]
    /\ p_invoked = [w \in Workers |-> NoCalls]

\* Time passes, a month at a time, between runs: a run lasts minutes.
Tick ==
    /\ now < MaxTime
    /\ \A w \in Workers : p_pc[w] = "idle"
    /\ now' = now + 1
    /\ UNCHANGED <<concurrent, store, runs_started, p_pc, p_patient,
                   p_under16, p_rem, p_outcome, p_looked, p_saw, p_invoked>>
    /\ UNCHANGED notProcess

\* The scheduler hands a queue element to a worker, which calls process.
StartRun(w) ==
    /\ p_pc[w] = "idle"
    /\ IF concurrent
         THEN p_outcome[w] = "-"
         ELSE w = 1 /\ runs_started < MaxRuns
    /\ runs_started' = runs_started + 1
    /\ \E p \in Patients \cup {"None"} :
          p_patient' = [p_patient EXCEPT ![w] = p]
    /\ p_pc' = [p_pc EXCEPT ![w] = "release_keys"]
    /\ p_under16' = [p_under16 EXCEPT ![w] = FALSE]
    /\ p_rem' = [p_rem EXCEPT ![w] = 1]
    /\ p_outcome' = [p_outcome EXCEPT ![w] = "-"]
    /\ p_looked' = [p_looked EXCEPT ![w] = NoGate]
    /\ p_saw' = [p_saw EXCEPT ![w] = NoGate]
    /\ p_invoked' = [p_invoked EXCEPT ![w] = NoCalls]
    /\ UNCHANGED <<concurrent, now, store>>
    /\ UNCHANGED notProcess

\* A call that is no gate returns.
ProcCall(w) ==
    /\ p_pc[w] \in PlainSteps
    /\ p_pc' = [p_pc EXCEPT ![w] = Succ(p_pc[w])]
    /\ UNCHANGED <<concurrent, now, store, runs_started, p_patient,
                   p_under16, p_rem, p_outcome, p_looked, p_saw, p_invoked>>
    /\ UNCHANGED notProcess

\* "if queue_element is None or queue_element.data is None: return"
LoadNone(w) ==
    /\ p_pc[w] = "load"
    /\ p_patient[w] = "None"
    /\ p_pc' = [p_pc EXCEPT ![w] = "close_patient_window"]
    /\ UNCHANGED <<concurrent, now, store, runs_started, p_patient,
                   p_under16, p_rem, p_outcome, p_looked, p_saw, p_invoked>>
    /\ UNCHANGED notProcess

\* json.loads(queue_element.data) and the removal of "-" from patient_cpr
Load(w) ==
    /\ p_pc[w] = "load"
    /\ p_patient[w] # "None"
    /\ p_pc' = [p_pc EXCEPT ![w] = Succ(p_pc[w])]
    /\ UNCHANGED <<concurrent, now, store, runs_started, p_patient,
                   p_under16, p_rem, p_outcome, p_looked, p_saw, p_invoked>>
    /\ UNCHANGED notProcess

\* is_patient_under_16 = is_under_16(queue_element_data["patient_cpr"])
ComputeUnder16(w) ==
    /\ p_pc[w] = "is_under_16"
    /\ p_under16' = [p_under16 EXCEPT ![w] = IsUnder16(p_patient[w], now)]
    /\ p_pc' = [p_pc EXCEPT ![w] = Succ(p_pc[w])]
    /\ UNCHANGED <<concurrent, now, store, runs_started, p_patient,
                   p_rem, p_outcome, p_looked, p_saw, p_invoked>>
    /\ UNCHANGED notProcess

\* A call other than a creation raises: the except clauses log and re-raise,
\* and the finally clause closes the patient window. release_keys is called
\* before the try statement; an error of edi_portal_handler or of the
\* close_edi_portal after it is met by the inner except clause.
ProcRaise(w) ==
    /\ p_pc[w] \in PlainSteps \cup LookupSteps
                     \cup {"load", "is_under_16", "close_edi_portal_exc"}
    /\ p_patient[w] # "None" \/ p_pc[w] \in {"release_keys", "kill_application"}
    /\ p_outcome' = [p_outcome EXCEPT ![w] = "raised"]
    /\ p_pc' = [p_pc EXCEPT ![w] =
                  CASE p_pc[w] = "release_keys" -> "idle"
                    [] p_pc[w] \in {"edi_portal_handler", "close_edi_portal"} ->
                          "close_edi_portal_exc"
                    [] OTHER -> "close_patient_window"]
    /\ UNCHANGED <<concurrent, now, store, runs_started, p_patient,
                   p_under16, p_rem, p_looked, p_saw, p_invoked>>
    /\ UNCHANGED notProcess

\* "except Exception as e: close_edi_portal(); raise e"
CloseEdiPortalOnError(w) ==
    /\ p_pc[w] = "close_edi_portal_exc"
    /\ p_pc' = [p_pc EXCEPT ![w] = "close_patient_window"]
    /\ UNCHANGED <<concurrent, now, store, runs_started, p_patient,
                   p_under16, p_rem, p_outcome, p_looked, p_saw, p_invoked>>
    /\ UNCHANGED notProcess

\* The lookup of a gate and the "if not ..." that follows it.
LookupStep(w) ==
    /\ p_pc[w] \in LookupSteps
    /\ LET g == GateAt(w)
           result == Lookup(g, p_patient[w], p_under16[w], now, store)
       IN  /\ p_looked' = [p_looked EXCEPT ![w][g] =
                              IF result = {} THEN "empty" ELSE "found"]
           /\ p_saw' = [p_saw EXCEPT ![w][g] =
                           Seen(g, p_patient[w], p_under16[w], now, store)]
           /\ IF ShouldCreate(result)
                THEN /\ p_pc' = [p_pc EXCEPT ![w] = Succ(p_pc[w])]
                     /\ p_rem' = p_rem
                ELSE /\ p_pc' = [p_pc EXCEPT ![w] = AfterGate(w)]
                     /\ p_rem' = [p_rem EXCEPT ![w] = RemAfterGate(w)]
    /\ UNCHANGED <<concurrent, now, store, runs_started, p_patient,
                   p_under16, p_outcome, p_invoked>>
    /\ UNCHANGED notProcess

\* A creation that looks again and leaves the record alone when another run
\* has stored it meanwhile.
CreateStepIfStillAbsent(w) ==
    /\ p_pc[w] \in CreateSteps
    /\ LET g == GateAt(w)
           rec == [patient |-> p_patient[w], key |-> Key(g, p_under16[w]),
                   created |-> now]
       IN  IF Lookup(g, p_patient[w], p_under16[w], now, store) # {}
             THEN /\ p_pc' = [p_pc EXCEPT ![w] = AfterGate(w)]
                  /\ p_rem' = [p_rem EXCEPT ![w] = RemAfterGate(w)]
                  /\ UNCHANGED <<store, p_invoked, p_outcome>>
             ELSE /\ p_invoked' = [p_invoked EXCEPT ![w][g] = @ + 1]
                  /\ store' = store \cup {rec}
                  /\ p_pc' = [p_pc EXCEPT ![w] = AfterGate(w)]
                  /\ p_rem' = [p_rem EXCEPT ![w] = RemAfterGate(w)]
                  /\ p_outcome' = p_outcome
    /\ UNCHANGED <<concurrent, now, runs_started, p_patient, p_under16,
                   p_looked, p_saw>>
    /\ UNCHANGED notProcess

\* The creation of a gate, driven through the vendor's user interface: the
\* record is stored, or the action raises and leaves none.
CreateStep(w) ==
    /\ p_pc[w] \in CreateSteps
    /\ LET g == GateAt(w)
           rec == [patient |-> p_patient[w], key |-> Key(g, p_under16[w]),
                   created |-> now]
       IN  /\ p_invoked' = [p_invoked EXCEPT ![w][g] = @ + 1]
           /\ \E out \in {"stored", "raised"} :
                 /\ store' = IF out = "stored" THEN store \cup {rec} ELSE store
                 /\ IF out = "raised"
                      THEN /\ p_pc' = [p_pc EXCEPT ![w] = "close_patient_window"]
                           /\ p_outcome' = [p_outcome EXCEPT ![w] = "raised"]
                           /\ p_rem' = p_rem
                      ELSE /\ p_pc' = [p_pc EXCEPT ![w] = AfterGate(w)]
                           /\ p_outcome' = p_outcome
                           /\ p_rem' = [p_rem EXCEPT ![w] = RemAfterGate(w)]
    /\ UNCHANGED <<concurrent, now, runs_started, p_patient, p_under16,
                   p_looked, p_saw>>
    /\ UNCHANGED notProcess

\* "finally: close_patient_window(...)", and process returns or re-raises.
ClosePatientWindow(w) ==
    /\ p_pc[w] = "close_patient_window"
    /\ p_pc' = [p_pc EXCEPT ![w] = "idle"]
    /\ p_outcome' = [p_outcome EXCEPT ![w] =
                        IF @ = "-" THEN "returned" ELSE @]
    /\ UNCHANGED <<concurrent, now, store, runs_started, p_patient,
                   p_under16, p_rem, p_looked, p_saw, p_invoked>>
    /\ UNCHANGED notProcess

ProcNext ==
    \/ Tick
    \/ \E w \in Workers :
          \/ StartRun(w)
          \/ ProcCall(w)
          \/ LoadNone(w)
          \/ Load(w)
          \/ ComputeUnder16(w)
          \/ ProcRaise(w)
          \/ CloseEdiPortalOnError(w)
          \/ LookupStep(w)
          \/ CreateStep(w)
          \/ ClosePatientWindow(w)

-----------------------------------------------------------------------------
(* wait_for_control: the polling wait                                       *)

MaxTimeout == 3

\* "if control.Exists(0, 0): return control"
FoundWithoutCheck(exists) == TRUE
Found(exists) == exists

\* "while time.time() < end_time"
KeepPolling(t, end) == t < end

WaitInit ==
    /\ w_pc = "start"
    /\ w_clock = 0
    /\ w_end_time = 0
    /\ w_present \in BOOLEAN
    /\ w_attempt = 0
    /\ w_first_hit = 0
    /\ w_failed = FALSE
    /\ w_result = "-"

\* The user interface changes under the robot.
ElementChanges ==
    /\ w_pc \notin {"returned", "raised"}
    /\ w_present' = ~w_present
    /\ UNCHANGED <<w_pc, w_clock, w_end_time, w_attempt, w_first_hit,
                   w_failed, w_result>>
    /\ UNCHANGED notWait

\* The clock runs on while the call looks the element up.
ClockAdvances ==
    /\ w_pc \in {"loop", "construct", "exists_print", "exists_if", "sleep"}
    /\ w_clock <= w_end_time
    /\ w_clock' = w_clock + 1
    /\ UNCHANGED <<w_pc, w_end_time, w_present, w_attempt, w_first_hit,
                   w_failed, w_result>>
    /\ UNCHANGED notWait

\* end_time = time.time() + timeout
WaitStart ==
    /\ w_pc = "start"
    /\ \E timeout \in 0..MaxTimeout : w_end_time' = w_clock + timeout
    /\ w_pc' = "loop"
    /\ UNCHANGED <<w_clock, w_present, w_attempt, w_first_hit, w_failed,
                   w_result>>
    /\ UNCHANGED notWait

\* The loop condition holds: a polling attempt begins.
WaitEnterLoop ==
    /\ w_pc = "loop"
    /\ KeepPolling(w_clock, w_end_time)
    /\ w_pc' = "construct"
    /\ w_attempt' = w_attempt + 1
    /\ UNCHANGED <<w_clock, w_end_time, w_present, w_first_hit, w_failed,
                   w_result>>
    /\ UNCHANGED notWait

\* The loop condition fails: raise TimeoutError.
WaitTimeout ==
    /\ w_pc = "loop"
    /\ ~KeepPolling(w_clock, w_end_time)
    /\ w_pc' = "raised"
    /\ w_result' = "TimeoutError"
    /\ UNCHANGED <<w_clock, w_end_time, w_present, w_attempt, w_first_hit,
                   w_failed>>
    /\ UNCHANGED notWait

\* control = control_type(searchDepth=search_depth, **search_params)
WaitConstruct ==
    /\ w_pc = "construct"
    /\ w_pc' = "exists_print"
    /\ UNCHANGED <<w_clock, w_end_time, w_present, w_attempt, w_first_hit,
                   w_failed, w_result>>
    /\ UNCHANGED notWait

\* print(f"Control exists: {control.Exists(0, 0)}")
WaitExistsPrint ==
    /\ w_pc = "exists_print"
    /\ w_pc' = "exists_if"
    /\ UNCHANGED <<w_clock, w_end_time, w_present, w_attempt, w_first_hit,
                   w_failed, w_result>>
    /\ UNCHANGED notWait

\* "if control.Exists(0, 0): return control", the element being there.
WaitReturn ==
    /\ w_pc = "exists_if"
    /\ Found(w_present)
    /\ w_first_hit' = IF w_present /\ w_first_hit = 0 THEN w_attempt
                      ELSE w_first_hit
    /\ w_result' = IF w_present THEN "control" ELSE "absent control"
    /\ w_pc' = "returned"
    /\ UNCHANGED <<w_clock, w_end_time, w_present, w_attempt, w_failed>>
    /\ UNCHANGED notWait

\* The "if" query says the element is not there.
WaitNotFound ==
    /\ w_pc = "exists_if"
    /\ ~Found(w_present)
    /\ w_first_hit' = IF w_present /\ w_first_hit = 0 THEN w_attempt
                      ELSE w_first_hit
    /\ w_pc' = "sleep"
    /\ UNCHANGED <<w_clock, w_end_time, w_present, w_attempt, w_failed,
                   w_result>>
    /\ UNCHANGED notWait

\* The constructor or one of the two queries raises: "except Exception"
\* prints the error and the attempt ends as if nothing was found.
WaitLookupRaises ==
    /\ w_pc \in {"construct", "exists_print", "exists_if"}
    /\ w_failed' = TRUE
    /\ w_pc' = "sleep"
    /\ UNCHANGED <<w_clock, w_end_time, w_present, w_attempt, w_first_hit,
                   w_result>>
    /\ UNCHANGED notWait

\* time.sleep(retry_interval)
WaitSleep ==
    /\ w_pc = "sleep"
    /\ w_clock' = w_clock + 1
    /\ w_pc' = "loop"
    /\ UNCHANGED <<w_end_time, w_present, w_attempt, w_first_hit, w_failed,
                   w_result>>
    /\ UNCHANGED notWait

\* The steps of the call itself.
WaitStep ==
    \/ WaitStart
    \/ WaitEnterLoop
    \/ WaitTimeout
    \/ WaitConstruct
    \/ WaitExistsPrint
    \/ WaitReturn
    \/ WaitNotFound
    \/ WaitLookupRaises
    \/ WaitSleep

WaitNext == WaitStep \/ ElementChanges \/ ClockAdvances

-----------------------------------------------------------------------------
(* wait_for_control_to_disappear: the polling wait for an element to go     *)

DisappearInit ==
    /\ d_pc = "start"
    /\ d_clock = 0
    /\ d_end_time = 0
    /\ d_present \in BOOLEAN
    /\ d_seen_absent = FALSE
    /\ d_result = "-"

\* The user interface changes under the robot.
DisElementChanges ==
    /\ d_pc \notin {"idle", "returned", "raised"}
    /\ d_present' = ~d_present
    /\ UNCHANGED <<d_pc, d_clock, d_end_time, d_seen_absent, d_result>>
    /\ UNCHANGED notDisappear

\* The clock runs on while the call looks the element up.
DisClockAdvances ==
    /\ d_pc \in {"loop", "construct", "exists_if", "sleep"}
    /\ d_clock <= d_end_time
    /\ d_clock' = d_clock + 1
    /\ UNCHANGED <<d_pc, d_end_time, d_present, d_seen_absent, d_result>>
    /\ UNCHANGED notDisappear

\* end_time = time.time() + timeout
DisStart ==
    /\ d_pc = "start"
    /\ \E timeout \in 0..MaxTimeout : d_end_time' = d_clock + timeout
    /\ d_pc' = "loop"
    /\ UNCHANGED <<d_clock, d_present, d_seen_absent, d_result>>
    /\ UNCHANGED notDisappear

\* "while time.time() < end_time" holds: a poll begins.
DisEnterLoop ==
    /\ d_pc = "loop"
    /\ KeepPolling(d_clock, d_end_time)
    /\ d_pc' = "construct"
    /\ UNCHANGED <<d_clock, d_end_time, d_present, d_seen_absent, d_result>>
    /\ UNCHANGED notDisappear

\* The loop condition fails: the statement after the loop is
\* "raise TimeoutError(...)".
DisTimeout ==
    /\ d_pc = "loop"
    /\ ~KeepPolling(d_clock, d_end_time)
    /\ d_pc' = "raised"
    /\ d_result' = "TimeoutError"
    /\ UNCHANGED <<d_clock, d_end_time, d_present, d_seen_absent>>
    /\ UNCHANGED notDisappear

\* control = control_type(searchDepth=search_depth, **search_params)
DisConstruct ==
    /\ d_pc = "construct"
    /\ d_pc' = "exists_if"
    /\ UNCHANGED <<d_clock, d_end_time, d_present, d_seen_absent, d_result>>
    /\ UNCHANGED notDisappear

\* "if not control.Exists(0, 0): return True"
DisReturnTrue ==
    /\ d_pc = "exists_if"
    /\ ~d_present
    /\ d_seen_absent' = TRUE
    /\ d_result' = "True"
    /\ d_pc' = "returned"
    /\ UNCHANGED <<d_clock, d_end_time, d_present>>
    /\ UNCHANGED notDisappear

\* The query says the element is still there.
DisStillThere ==
    /\ d_pc = "exists_if"
    /\ d_present
    /\ d_pc' = "sleep"
    /\ UNCHANGED <<d_clock, d_end_time, d_present, d_seen_absent, d_result>>
    /\ UNCHANGED notDisappear

\* The constructor or the query raises: "except Exception" prints the error.
DisLookupRaises ==
    /\ d_pc \in {"construct", "exists_if"}
    /\ d_pc' = "sleep"
    /\ UNCHANGED <<d_clock, d_end_time, d_present, d_seen_absent, d_result>>
    /\ UNCHANGED notDisappear

\* time.sleep(0.5)
DisSleep ==
    /\ d_pc = "sleep"
    /\ d_clock' = d_clock + 1
    /\ d_pc' = "loop"
    /\ UNCHANGED <<d_end_time, d_present, d_seen_absent, d_result>>
    /\ UNCHANGED notDisappear

DisappearNext ==
    \/ DisStart
    \/ DisEnterLoop
    \/ DisTimeout
    \/ DisConstruct
    \/ DisReturnTrue
    \/ DisStillThere
    \/ DisLookupRaises
    \/ DisSleep
    \/ DisElementChanges
    \/ DisClockAdvances

-----------------------------------------------------------------------------
(* edi_portal_upload_files: the wait for the upload to finish               *)

\* "timeout = 180" and "time.sleep(5); timeout -= 5"
UploadBudget == 180
UploadPoll == 5

\* "while not element_gone and timeout > 0"
UploadLoopsWhileNotNegative(gone, timeout) == ~gone /\ timeout >= 0
UploadLoops(gone, timeout) == ~gone /\ timeout > 0

\* The file dialog has been confirmed with ENTER.
UploadInit ==
    /\ u_pc = "root_web_area"
    /\ u_timeout = 0
    /\ element_gone = FALSE
    /\ u_checks = 0
    /\ u_found = 0
    /\ u_result = "-"

\* root_web_area = wait_for_control(...) returns the control; then
\* "element_gone = False; timeout = 180".
UploadFindsWebArea ==
    /\ u_pc = "root_web_area"
    /\ element_gone' = FALSE
    /\ u_timeout' = UploadBudget
    /\ u_pc' = "loop"
    /\ UNCHANGED <<u_checks, u_found, u_result>>
    /\ UNCHANGED notUpload

\* root_web_area = wait_for_control(...) raises TimeoutError, which nothing
\* here catches.
UploadWebAreaMissing ==
    /\ u_pc = "root_web_area"
    /\ u_result' = "TimeoutError"
    /\ u_pc' = "raised"
    /\ UNCHANGED <<u_timeout, element_gone, u_checks, u_found>>
    /\ UNCHANGED notUpload

\* The loop condition holds: the next check begins.
UploadEnterLoop ==
    /\ u_pc = "loop"
    /\ UploadLoops(element_gone, u_timeout)
    /\ u_checks' = u_checks + 1
    /\ u_pc' = "check"
    /\ UNCHANGED <<u_timeout, element_gone, u_found, u_result>>
    /\ UNCHANGED notUpload

\* wait_for_control(..., timeout=5) returns the indicator; a control object
\* is truthy, so "if upload_progress:" sleeps 5 s and deducts 5.
UploadIndicatorFound ==
    /\ u_pc = "check"
    /\ IF Truthy("control")
       THEN /\ u_timeout' = u_timeout - UploadPoll
            /\ UNCHANGED element_gone
       ELSE /\ element_gone' = TRUE
            /\ UNCHANGED u_timeout
    /\ u_found' = u_found + 1
    /\ u_pc' = "loop"
    /\ UNCHANGED <<u_checks, u_result>>
    /\ UNCHANGED notUpload

\* wait_for_control(..., timeout=5) raises TimeoutError:
\* "except TimeoutError: element_gone = True".
UploadIndicatorMissing ==
    /\ u_pc = "check"
    /\ element_gone' = TRUE
    /\ u_pc' = "loop"
    /\ UNCHANGED <<u_timeout, u_checks, u_found, u_result>>
    /\ UNCHANGED notUpload

\* The loop condition fails: the function ends and returns None.
UploadReturn ==
    /\ u_pc = "loop"
    /\ ~UploadLoops(element_gone, u_timeout)
    /\ u_result' = "None"
    /\ u_pc' = "returned"
    /\ UNCHANGED <<u_timeout, element_gone, u_checks, u_found>>
    /\ UNCHANGED notUpload

UploadNext ==
    \/ UploadFindsWebArea
    \/ UploadWebAreaMissing
    \/ UploadEnterLoop
    \/ UploadIndicatorFound
    \/ UploadIndicatorMissing
    \/ UploadReturn

-----------------------------------------------------------------------------
(* edi_portal_get_journal_sent_receip: the scan of the sent-messages table  *)

\* Rows of the table, the header row included.
MaxRows == 4

\* The subject the caller passes, and the message texts a row can show.
Subject == "subject"
Messages == {Subject, "other"}

\* The text of a date cell, as its numeric fields in the order written:
\* "11-09-2025 13:28" is <<11, 9, 2025, 13, 28>>, the empty text is << >>.
DateStrings ==
    { << >>,
      <<11, 9, 2025, 13, 28>>,
      <<2, 10, 2025, 8, 0>>,
      <<2025, 9, 11, 13, 28>> }

\* None, for a row number or a date.
None == << >>

\* _parse_date: None for the empty text and for a text strptime rejects
\* under "%d-%m-%Y %H:%M"; otherwise the datetime, here as
\* <<year, month, day, hour, minute>>.
ParseDateAsWritten(date_str) ==
    IF date_str = << >> THEN None
    ELSE IF /\ Len(date_str) = 5
            /\ date_str[1] \in 1..31
            /\ date_str[2] \in 1..12
            /\ date_str[4] \in 0..23
            /\ date_str[5] \in 0..59
         THEN date_str
         ELSE None
ParseDate(date_str) ==
    IF date_str = << >> THEN None
    ELSE IF /\ Len(date_str) = 5
            /\ date_str[1] \in 1..31
            /\ date_str[2] \in 1..12
            /\ date_str[4] \in 0..23
            /\ date_str[5] \in 0..59
         THEN <<date_str[3], date_str[2], date_str[1], date_str[4],
                date_str[5]>>
         ELSE None

\* a > b on datetimes.
Later(a, b) ==
    \E i \in 1..5 : a[i] > b[i] /\ \A j \in 1..(i - 1) : a[j] = b[j]

\* range(1, row_count)
ScanRowsWithHeader(n) == 0..(n - 1)
ScanRows(n) == 1..(n - 1)

\* grid_pattern.GetItem(row, 5).Name and grid_pattern.GetItem(row, 1).Name
MessageOf(t, r) == t[r + 1].message
DateOf(t, r) == t[r + 1].date

Tables ==
    UNION { [1..n -> [message : Messages, date : DateStrings]] : n \in 0..MaxRows }

ScanInit ==
    /\ r_pc = "start"
    /\ table \in Tables
    /\ row_count = 0
    /\ row = 0
    /\ latest_matching_row = None
    /\ latest_date = None
    /\ success_message = FALSE
    /\ r_clicked = None
    /\ r_result = "-"

\* The RootWebArea and the table are found; row_count is read and the scan
\* variables are set.
ScanReadTable ==
    /\ r_pc = "start"
    /\ row_count' = Len(table)
    /\ success_message' = FALSE
    /\ latest_matching_row' = None
    /\ latest_date' = None
    /\ row' = -1
    /\ r_pc' = IF Len(table) > 0 THEN "for" ELSE "decide"
    /\ UNCHANGED <<table, r_clicked, r_result>>
    /\ UNCHANGED notScan

\* One of the two lookups raises TimeoutError; "except Exception" prints and
\* re-raises.
ScanLookupFails ==
    /\ r_pc = "start"
    /\ r_result' = "TimeoutError"
    /\ r_pc' = "raised"
    /\ UNCHANGED <<table, row_count, row, latest_matching_row, latest_date,
                   success_message, r_clicked>>
    /\ UNCHANGED notScan

\* The rows the for loop has still to visit (row is -1 before the first).
RowsLeft == {r \in ScanRows(row_count) : r > row}

\* One iteration of "for row in range(1, row_count)".
ScanRow ==
    /\ r_pc = "for"
    /\ RowsLeft # {}
    /\ LET r == CHOOSE x \in RowsLeft : \A y \in RowsLeft : x <= y
           parsed_date == ParseDate(DateOf(table, r))
           newer == /\ Subject = MessageOf(table, r)
                    /\ parsed_date # None
                    /\ latest_date = None \/ Later(parsed_date, latest_date)
       IN  /\ row' = r
           /\ latest_matching_row' = IF newer THEN <<r>> ELSE latest_matching_row
           /\ latest_date' = IF newer THEN parsed_date ELSE latest_date
    /\ UNCHANGED <<r_pc, table, row_count, success_message, r_clicked,
                   r_result>>
    /\ UNCHANGED notScan

\* Reading a cell raises; "except Exception" prints and re-raises.
ScanRowRaises ==
    /\ r_pc = "for"
    /\ RowsLeft # {}
    /\ r_result' = "Exception"
    /\ r_pc' = "raised"
    /\ UNCHANGED <<table, row_count, row, latest_matching_row, latest_date,
                   success_message, r_clicked>>
    /\ UNCHANGED notScan

\* The loop is over: "if latest_matching_row is not None: success_message = True"
ScanDone ==
    /\ r_pc = "for"
    /\ RowsLeft = {}
    /\ success_message' = IF latest_matching_row # None THEN TRUE
                          ELSE success_message
    /\ r_pc' = "decide"
    /\ UNCHANGED <<table, row_count, row, latest_matching_row, latest_date,
                   r_clicked, r_result>>
    /\ UNCHANGED notScan

\* "if success_message": take the menu button of the row and click it.
ScanClickMenu ==
    /\ r_pc = "decide"
    /\ success_message
    /\ r_clicked' = latest_matching_row
    /\ r_pc' = "menu"
    /\ UNCHANGED <<table, row_count, row, latest_matching_row, latest_date,
                   success_message, r_result>>
    /\ UNCHANGED notScan

\* "else: raise RuntimeError('Message not sent.')"
ScanNotSent ==
    /\ r_pc = "decide"
    /\ ~success_message
    /\ r_result' = "RuntimeError: Message not sent."
    /\ r_pc' = "raised"
    /\ UNCHANGED <<table, row_count, row, latest_matching_row, latest_date,
                   success_message, r_clicked>>
    /\ UNCHANGED notScan

\* The popup menu, its item "Gem" and the link "Gem som PDF" are found and
\* the link is clicked.
ScanSaveAsPdf ==
    /\ r_pc = "menu"
    /\ r_pc' = "save_clicked"
    /\ UNCHANGED <<table, row_count, row, latest_matching_row, latest_date,
                   success_message, r_clicked, r_result>>
    /\ UNCHANGED notScan

\* One of the three menu lookups raises TimeoutError.
ScanMenuFails ==
    /\ r_pc = "menu"
    /\ r_result' = "TimeoutError"
    /\ r_pc' = "raised"
    /\ UNCHANGED <<table, row_count, row, latest_matching_row, latest_date,
                   success_message, r_clicked>>
    /\ UNCHANGED notScan

ScanNext ==
    \/ ScanReadTable
    \/ ScanLookupFails
    \/ ScanRow
    \/ ScanRowRaises
    \/ ScanDone
    \/ ScanClickMenu
    \/ ScanNotSent
    \/ ScanSaveAsPdf
    \/ ScanMenuFails

-----------------------------------------------------------------------------
(* edi_portal_get_journal_sent_receip: the wait for the downloaded receipt  *)

\* "timeout = 60", in seconds; the loop sleeps one second between polls.
DownloadTimeout == 60

\* "while time.time() - start_time < timeout"
DownloadPolls(t, start) == t - start < DownloadTimeout

\* "if receipt is not None"
ReceiptFoundNever(present) == FALSE
ReceiptFound(present) == present

\* "Gem som PDF" has been clicked.
DownloadInit ==
    /\ f_pc = "start"
    /\ f_clock = 0
    /\ start_time = 0
    /\ f_file \in BOOLEAN
    /\ f_polls = 0
    /\ f_first_seen = 0
    /\ f_result = "-"

\* A file named Meddelelse*.pdf appears in, or leaves, the Downloads folder.
DownloadFileChanges ==
    /\ f_pc \in {"start", "loop", "glob", "sleep"}
    /\ f_file' = ~f_file
    /\ UNCHANGED <<f_pc, f_clock, start_time, f_polls, f_first_seen,
                   f_result>>
    /\ UNCHANGED notDownload

\* The clock runs on while the function works.
DownloadClockAdvances ==
    /\ f_pc \in {"loop", "glob", "sleep"}
    /\ f_clock - start_time <= DownloadTimeout
    /\ f_clock' = f_clock + 1
    /\ UNCHANGED <<f_pc, start_time, f_file, f_polls, f_first_seen, f_result>>
    /\ UNCHANGED notDownload

\* start_time = time.time()
DownloadStart ==
    /\ f_pc = "start"
    /\ start_time' = f_clock
    /\ f_pc' = "loop"
    /\ UNCHANGED <<f_clock, f_file, f_polls, f_first_seen, f_result>>
    /\ UNCHANGED notDownload

\* The loop condition holds: the next poll begins.
DownloadEnterLoop ==
    /\ f_pc = "loop"
    /\ DownloadPolls(f_clock, start_time)
    /\ f_polls' = f_polls + 1
    /\ f_pc' = "glob"
    /\ UNCHANGED <<f_clock, start_time, f_file, f_first_seen, f_result>>
    /\ UNCHANGED notDownload

\* receipt = next(download_path.glob("Meddelelse*.pdf"), None) finds a file:
\* "return receipt".
DownloadReturn ==
    /\ f_pc = "glob"
    /\ ReceiptFound(f_file)
    /\ f_first_seen' = IF f_first_seen = 0 THEN f_polls ELSE f_first_seen
    /\ f_result' = "receipt"
    /\ f_pc' = "returned"
    /\ UNCHANGED <<f_clock, start_time, f_file, f_polls>>
    /\ UNCHANGED notDownload

\* The glob finds nothing for the "if" to act on.
DownloadNothingYet ==
    /\ f_pc = "glob"
    /\ ~ReceiptFound(f_file)
    /\ f_first_seen' = IF f_file /\ f_first_seen = 0 THEN f_polls
                       ELSE f_first_seen
    /\ f_pc' = "sleep"
    /\ UNCHANGED <<f_clock, start_time, f_file, f_polls, f_result>>
    /\ UNCHANGED notDownload

\* time.sleep(1)
DownloadSleep ==
    /\ f_pc = "sleep"
    /\ f_clock' = f_clock + 1
    /\ f_pc' = "loop"
    /\ UNCHANGED <<start_time, f_file, f_polls, f_first_seen, f_result>>
    /\ UNCHANGED notDownload

\* The loop condition fails: raise FileNotFoundError, which "except
\* Exception" prints and re-raises.
DownloadTimesOut ==
    /\ f_pc = "loop"
    /\ ~DownloadPolls(f_clock, start_time)
    /\ f_result' = "FileNotFoundError"
    /\ f_pc' = "raised"
    /\ UNCHANGED <<f_clock, start_time, f_file, f_polls, f_first_seen>>
    /\ UNCHANGED notDownload

\* The steps of the function itself.
DownloadStep ==
    \/ DownloadStart
    \/ DownloadEnterLoop
    \/ DownloadReturn
    \/ DownloadNothingYet
    \/ DownloadSleep
    \/ DownloadTimesOut

DownloadNext == DownloadStep \/ DownloadFileChanges \/ DownloadClockAdvances

-----------------------------------------------------------------------------
(* process: one run, its calls in order and the way of its exceptions       *)

\* The places of process, and of the initialization checks it calls, where
\* an action is invoked, in the order of the code.
RunOrderUpdateFirst ==
    << "release_keys", "kill_application", "none_check", "load",
       "open_patient", "is_under_16", "update_patient_info",
       "check_primary_clinic_data", "check_extern_clinic_data",
       "check_extern_clinic_deal", "check_administrative_note",
       "check_other_documents",
       "cc_open_edi_portal", "cc_check_contractor_id", "cc_close_edi_portal",
       "create_event_if_not_created",
       "create_booking_reminders", "handle_discharge_document",
       "check_and_send_discharge_document", "get_images_from_romexis",
       "check_and_create_medical_record_document",
       "prepare_edi_portal_documents", "open_edi_portal",
       "edi_portal_handler", "close_edi_portal",
       "edi_receipt_document", "administrative_note", "finally" >>
RunOrder ==
    << "release_keys", "kill_application", "none_check", "load",
       "open_patient",
       "check_primary_clinic_data", "check_extern_clinic_data",
       "check_extern_clinic_deal", "check_administrative_note",
       "check_other_documents",
       "cc_open_edi_portal", "cc_check_contractor_id", "cc_close_edi_portal",
       "is_under_16", "update_patient_info", "create_event_if_not_created",
       "create_booking_reminders", "handle_discharge_document",
       "check_and_send_discharge_document", "get_images_from_romexis",
       "check_and_create_medical_record_document",
       "prepare_edi_portal_documents", "open_edi_portal",
       "edi_portal_handler", "close_edi_portal",
       "edi_receipt_document", "administrative_note", "finally" >>

RunSteps == {RunOrder[i] : i \in DOMAIN RunOrder} \ {"none_check", "finally"}

RunSucc(pc) == RunOrder[(CHOOSE i \in DOMAIN RunOrder : RunOrder[i] = pc) + 1]

\* The body of check_contractor_data's try statement, and of the try
\* statement around edi_portal_handler in process.
ContractorTry == {"cc_open_edi_portal", "cc_check_contractor_id",
                  "cc_close_edi_portal"}
EdiTry == {"edi_portal_handler", "close_edi_portal"}

\* The places that call open_edi_portal and close_edi_portal.
OpensPortal == {"cc_open_edi_portal", "open_edi_portal"}
ClosesPortal == {"cc_close_edi_portal", "cc_except_close", "close_edi_portal",
                 "edi_except_close"}

\* The exceptions a call lets through: BusinessError where the code raises
\* it, the wrapping RuntimeError of edi_portal_handler, the wrapping
\* Exception of get_images_from_romexis, and otherwise a technical error of
\* the database or the user interface.
StepRaises(pc) ==
    CASE pc \in {"check_primary_clinic_data", "check_extern_clinic_data",
                 "check_extern_clinic_deal", "check_administrative_note",
                 "check_other_documents", "cc_check_contractor_id"} ->
            {"BusinessError", "Exception"}
      [] pc = "prepare_edi_portal_documents" ->
            {"BusinessError", "ValueError", "Exception"}
      [] pc \in {"load", "is_under_16"} -> {"ValueError"}
      [] pc = "edi_portal_handler" -> {"RuntimeError"}
      [] OTHER -> {"Exception"}

NoError == [step |-> "-", kind |-> "-"]

\* "except BusinessError as be: ... raise be" and
\* "except Exception as e: ... raise e" of process
ReraiseSwallowed(kind) == "-"
Reraise(kind) == kind

\* "return" inside the try statement: the finally clause runs.
EarlyReturnSkipsFinally == "done"
EarlyReturnTo == "finally"

\* The except clause around edi_portal_handler calls close_edi_portal.
ClosesOnHandlerErrorNot == FALSE
ClosesOnHandlerError == TRUE

\* queue_element.data as json.loads gives it: the identifier as its
\* characters, with or without separator, and the patient's name.
NoData == [patient_cpr |-> << >>, patient_name |-> "-"]

Jsons ==
    {[patient_cpr |-> c, patient_name |-> "Anna Hansen"] :
        c \in {<<"0", "1", "0", "6", "1", "0", "-", "1", "2", "3", "4">>,
               <<"0", "1", "0", "6", "1", "0", "1", "2", "3", "4">>,
               <<"-", "0", "1", "0", "6", "1", "0", "-", "1", "2", "3", "-">>}}

\* patient_cpr.replace("-", "")
KeepSeparator(cpr) == cpr
RemoveSeparator(cpr) == SelectSeq(cpr, LAMBDA ch : ch /= "-")

\* "queue_element_data = json.loads(queue_element.data)" and the assignment
\* to queue_element_data["patient_cpr"].
Loaded(json) == [json EXCEPT !.patient_cpr = RemoveSeparator(json.patient_cpr)]

RunInit ==
    /\ x_pc = "release_keys"
    /\ queue_element \in {"None", "data"}
    /\ x_json \in IF queue_element = "None" THEN {NoData} ELSE Jsons
    /\ queue_element_data = NoData
    /\ x_exc = "-"
    /\ x_first = NoError
    /\ x_err_at = 0
    /\ x_calls = << >>
    /\ x_unclosed = FALSE
    /\ x_outcome = "-"

\* The portal counts as open from the return of open_edi_portal to the next
\* call of close_edi_portal.
UnclosedAfter(pc, returned) ==
    IF pc \in ClosesPortal THEN FALSE
    ELSE IF pc \in OpensPortal /\ returned THEN TRUE
    ELSE x_unclosed

\* The call at this place returns.
RunCallReturns ==
    /\ x_pc \in RunSteps
    /\ x_calls' = Append(x_calls, x_pc)
    /\ x_unclosed' = UnclosedAfter(x_pc, TRUE)
    /\ x_pc' = RunSucc(x_pc)
    /\ queue_element_data' = IF x_pc = "load" THEN Loaded(x_json)
                             ELSE queue_element_data
    /\ UNCHANGED <<queue_element, x_json, x_exc, x_first, x_err_at,
                   x_outcome>>
    /\ UNCHANGED notRun

\* "if queue_element is None or queue_element.data is None: ... return"
RunEarlyReturn ==
    /\ x_pc = "none_check"
    /\ queue_element = "None"
    /\ x_pc' = EarlyReturnTo
    /\ x_outcome' = IF EarlyReturnTo = "done" THEN "returned" ELSE x_outcome
    /\ UNCHANGED <<queue_element, x_json, queue_element_data,
                   x_exc, x_first, x_err_at, x_calls,
                   x_unclosed>>
    /\ UNCHANGED notRun

RunHasData ==
    /\ x_pc = "none_check"
    /\ queue_element # "None"
    /\ x_pc' = RunSucc(x_pc)
    /\ UNCHANGED <<queue_element, x_json, queue_element_data,
                   x_exc, x_first, x_err_at, x_calls,
                   x_unclosed, x_outcome>>
    /\ UNCHANGED notRun

\* The call at this place raises. release_keys is called before the try
\* statement of process; the try statements of check_contractor_data and
\* around edi_portal_handler have except clauses of their own; everything
\* else is met by the except clauses of process.
RunCallRaises ==
    /\ x_pc \in RunSteps
    /\ \E kind \in StepRaises(x_pc) :
          /\ x_exc' = kind
          /\ x_first' = IF x_first = NoError
                          THEN [step |-> x_pc, kind |-> kind] ELSE x_first
          /\ x_outcome' = IF x_pc = "release_keys" THEN kind ELSE x_outcome
    /\ x_calls' = Append(x_calls, x_pc)
    /\ x_err_at' = IF x_err_at = 0 THEN Len(x_calls) + 1 ELSE x_err_at
    /\ x_unclosed' = UnclosedAfter(x_pc, FALSE)
    /\ x_pc' = CASE x_pc = "release_keys" -> "done"
                 [] x_pc \in ContractorTry -> "cc_except"
                 [] x_pc \in EdiTry -> "edi_except"
                 [] OTHER -> "except"
    /\ UNCHANGED <<queue_element, x_json, queue_element_data>>
    /\ UNCHANGED notRun

\* check_contractor_data, "except BusinessError" and "except Exception":
\* close_edi_portal(), log, "raise". When close_edi_portal raises, its
\* exception takes the place of the one being handled.
ContractorExcept ==
    /\ x_pc = "cc_except"
    /\ x_calls' = Append(x_calls, "cc_except_close")
    /\ x_unclosed' = UnclosedAfter("cc_except_close", TRUE)
    /\ \E kind \in {x_exc} \cup StepRaises("cc_except_close") : x_exc' = kind
    /\ x_pc' = "except"
    /\ UNCHANGED <<queue_element, x_json, queue_element_data,
                   x_first, x_err_at, x_outcome>>
    /\ UNCHANGED notRun

\* process, around edi_portal_handler: "except Exception as e:
\* close_edi_portal(); raise e", with the same effect of a failing close.
EdiExcept ==
    /\ x_pc = "edi_except"
    /\ IF ClosesOnHandlerError
         THEN /\ x_calls' = Append(x_calls, "edi_except_close")
              /\ x_unclosed' = UnclosedAfter("edi_except_close", TRUE)
              /\ \E kind \in {x_exc} \cup StepRaises("edi_except_close") :
                    x_exc' = kind
         ELSE UNCHANGED <<x_calls, x_unclosed, x_exc>>
    /\ x_pc' = "except"
    /\ UNCHANGED <<queue_element, x_json, queue_element_data,
                   x_first, x_err_at, x_outcome>>
    /\ UNCHANGED notRun

\* The except clauses of process log the error and raise it again.
RunExcept ==
    /\ x_pc = "except"
    /\ x_exc' = Reraise(x_exc)
    /\ x_pc' = "finally"
    /\ UNCHANGED <<queue_element, x_json, queue_element_data,
                   x_first, x_err_at, x_calls, x_unclosed,
                   x_outcome>>
    /\ UNCHANGED notRun

\* "finally: close_patient_window(...)", which catches what the closing
\* itself raises; then process returns or the exception goes to the caller.
RunFinally ==
    /\ x_pc = "finally"
    /\ x_calls' = Append(x_calls, "close_patient_window")
    /\ x_outcome' = IF x_exc = "-" THEN "returned" ELSE x_exc
    /\ x_pc' = "done"
    /\ UNCHANGED <<queue_element, x_json, queue_element_data,
                   x_exc, x_first, x_err_at, x_unclosed>>
    /\ UNCHANGED notRun

RunNext ==
    \/ RunCallReturns
    \/ RunEarlyReturn
    \/ RunHasData
    \/ RunCallRaises
    \/ ContractorExcept
    \/ EdiExcept
    \/ RunExcept
    \/ RunFinally

-----------------------------------------------------------------------------
(* process_images_threaded: the batch of image tasks on a thread pool       *)

\* The images of a batch.
MaxImages == 5

\* ThreadPoolExecutor(max_workers=4)
MaxWorkers == 4

ImageIds == 1..MaxImages

NoExc == [kind |-> "-", task |-> 0]

\* The tasks handed to the executor that have not finished.
Queued == {t \in ImageIds : task[t] = "queued"}
Running == {t \in ImageIds : task[t] = "running"}
Finished == {t \in ImageIds : task[t] \in {"done", "failed"}}

\* Leaving the with statement is executor.shutdown(wait=True): it returns
\* when every task handed in has run.
ExitWaitsForNone(unfinished) == TRUE
ExitWaits(unfinished) == unfinished = {}

\* images_data, each image with os.path.exists(source_path).
ImagesInit ==
    /\ i_pc = "submit"
    /\ images \in UNION {[1..n -> BOOLEAN] : n \in 0..MaxImages}
    /\ i_next = 1
    /\ task = [t \in ImageIds |-> "-"]
    /\ i_seen = {}
    /\ i_exc = NoExc
    /\ i_left = {}

\* One iteration of "for img in images_data": a missing file is skipped,
\* otherwise the task is handed to the executor.
ImgSubmit ==
    /\ i_pc = "submit"
    /\ i_next <= Len(images)
    /\ task' = IF images[i_next] THEN [task EXCEPT ![i_next] = "queued"]
               ELSE task
    /\ i_next' = i_next + 1
    /\ UNCHANGED <<i_pc, images, i_seen, i_exc, i_left>>
    /\ UNCHANGED notImages

\* db_handler.get_gamma_data raises in the loop: the with statement is left
\* with that exception.
ImgGammaRaises ==
    /\ i_pc = "submit"
    /\ i_next <= Len(images)
    /\ i_exc' = [kind |-> "database", task |-> 0]
    /\ i_pc' = "exit"
    /\ UNCHANGED <<images, i_next, task, i_seen, i_left>>
    /\ UNCHANGED notImages

\* The loop is over: "for future in as_completed(futures)" begins.
ImgSubmitDone ==
    /\ i_pc = "submit"
    /\ i_next > Len(images)
    /\ i_pc' = "collect"
    /\ UNCHANGED <<images, i_next, task, i_seen, i_exc, i_left>>
    /\ UNCHANGED notImages

\* A worker thread takes the oldest task of the queue; the pool has at most
\* max_workers threads.
TaskStarts(t) ==
    /\ i_pc \in {"submit", "collect", "exit"}
    /\ t \in Queued
    /\ \A q \in Queued : t <= q
    /\ Cardinality(Running) < MaxWorkers
    /\ task' = [task EXCEPT ![t] = "running"]
    /\ UNCHANGED <<i_pc, images, i_next, i_seen, i_exc, i_left>>
    /\ UNCHANGED notImages

\* add_black_bar_and_text_to_image returns.
TaskSucceeds(t) ==
    /\ t \in Running
    /\ task' = [task EXCEPT ![t] = "done"]
    /\ UNCHANGED <<i_pc, images, i_next, i_seen, i_exc, i_left>>
    /\ UNCHANGED notImages

\* add_black_bar_and_text_to_image raises.
TaskFails(t) ==
    /\ t \in Running
    /\ task' = [task EXCEPT ![t] = "failed"]
    /\ UNCHANGED <<i_pc, images, i_next, i_seen, i_exc, i_left>>
    /\ UNCHANGED notImages

\* as_completed yields a finished future whose result() returns.
ImgCollectOk ==
    /\ i_pc = "collect"
    /\ \E t \in Finished \ i_seen :
          /\ task[t] = "done"
          /\ i_seen' = i_seen \cup {t}
    /\ UNCHANGED <<i_pc, images, i_next, task, i_exc, i_left>>
    /\ UNCHANGED notImages

\* as_completed yields a finished future whose result() raises: "except
\* Exception as e: print(...); raise" leaves the loop and the with statement.
ImgCollectFailed ==
    /\ i_pc = "collect"
    /\ \E t \in Finished \ i_seen :
          /\ task[t] = "failed"
          /\ i_seen' = i_seen \cup {t}
          /\ i_exc' = [kind |-> "task", task |-> t]
    /\ i_left' = Queued \cup Running
    /\ i_pc' = "exit"
    /\ UNCHANGED <<images, i_next, task>>
    /\ UNCHANGED notImages

\* Every future has been yielded.
ImgCollectEnd ==
    /\ i_pc = "collect"
    /\ Queued \cup Running \cup (Finished \ i_seen) = {}
    /\ i_pc' = "exit"
    /\ UNCHANGED <<images, i_next, task, i_seen, i_exc, i_left>>
    /\ UNCHANGED notImages

\* The with statement is left: the function returns, or the exception goes
\* to the caller.
ImgExit ==
    /\ i_pc = "exit"
    /\ ExitWaits(Queued \cup Running)
    /\ i_pc' = IF i_exc = NoExc THEN "returned" ELSE "raised"
    /\ UNCHANGED <<images, i_next, task, i_seen, i_exc, i_left>>
    /\ UNCHANGED notImages

ImagesNext ==
    \/ ImgSubmit
    \/ ImgGammaRaises
    \/ ImgSubmitDone
    \/ \E t \in ImageIds : TaskStarts(t) \/ TaskSucceeds(t) \/ TaskFails(t)
    \/ ImgCollectOk
    \/ ImgCollectFailed
    \/ ImgCollectEnd
    \/ ImgExit

-----------------------------------------------------------------------------
(* split_zip: the entries of an archive put into buckets                    *)

\* The entries of the archive.
MaxEntries == 4

\* The largest compressed size of an entry.
MaxEntrySize == 3

\* The largest max_size.
MaxLimit == 2

\* current_size + file_compressed_size > max_size
OverflowsAtLimit(size, entry, limit) == size + entry >= limit
Overflows(size, entry, limit) == size + entry > limit

\* file_compressed_size > max_size
Oversize(entry, limit) == entry > limit

\* original_zip.infolist() as the compressed sizes of the entries, max_size.
ZipInit ==
    /\ z_pc = "loop"
    /\ file_infos \in UNION {[1..n -> 0..MaxEntrySize] : n \in 0..MaxEntries}
    /\ max_size \in 0..MaxLimit
    /\ z_i = 1
    /\ buckets = << >>
    /\ current_bucket = << >>
    /\ current_size = 0

\* An entry larger than max_size: the bucket being filled, when not empty,
\* is closed, and the entry gets a bucket of its own.
ZipOversize ==
    /\ z_pc = "loop"
    /\ z_i <= Len(file_infos)
    /\ Oversize(file_infos[z_i], max_size)
    /\ buckets' = (IF current_bucket /= << >>
                   THEN Append(buckets, current_bucket)
                   ELSE buckets) \o << <<z_i>> >>
    /\ current_bucket' = << >>
    /\ current_size' = IF current_bucket /= << >> THEN 0 ELSE current_size
    /\ z_i' = z_i + 1
    /\ UNCHANGED <<z_pc, file_infos, max_size>>
    /\ UNCHANGED notZip

\* Any other entry: the bucket being filled is closed when the entry does
\* not fit, and the entry is put into the bucket being filled.
ZipAdd ==
    /\ z_pc = "loop"
    /\ z_i <= Len(file_infos)
    /\ ~Oversize(file_infos[z_i], max_size)
    /\ LET full == Overflows(current_size, file_infos[z_i], max_size)
       IN  /\ buckets' = IF full THEN Append(buckets, current_bucket)
                         ELSE buckets
           /\ current_bucket' = (IF full THEN << >> ELSE current_bucket)
                                   \o <<z_i>>
           /\ current_size' = (IF full THEN 0 ELSE current_size)
                                 + file_infos[z_i]
    /\ z_i' = z_i + 1
    /\ UNCHANGED <<z_pc, file_infos, max_size>>
    /\ UNCHANGED notZip

\* After the loop: "if current_bucket: buckets.append(current_bucket)".
ZipFlush ==
    /\ z_pc = "loop"
    /\ z_i > Len(file_infos)
    /\ buckets' = IF current_bucket /= << >>
                  THEN Append(buckets, current_bucket)
                  ELSE buckets
    /\ z_pc' = "write"
    /\ UNCHANGED <<file_infos, max_size, z_i, current_bucket, current_size>>
    /\ UNCHANGED notZip

\* One part archive is written per bucket; the directory is returned.
ZipWriteParts ==
    /\ z_pc = "write"
    /\ z_pc' = "returned"
    /\ UNCHANGED <<file_infos, max_size, z_i, buckets, current_bucket,
                   current_size>>
    /\ UNCHANGED notZip

ZipNext ==
    \/ ZipOversize
    \/ ZipAdd
    \/ ZipFlush
    \/ ZipWriteParts

-----------------------------------------------------------------------------
(* cpr_to_birthdate and is_under_16 (helper_functions.py)                   *)

\* The characters of a decimal number, and one that is no digit.
DigitChars == <<"0", "1", "2", "3", "4", "5", "6", "7", "8", "9">>

\* str.isdigit() on a string given as its characters.
IsDigitString(s) ==
    /\ s /= << >>
    /\ \A k \in 1..Len(s) : \E d \in 1..10 : DigitChars[d] = s[k]

DigitValue(c) == (CHOOSE d \in 1..10 : DigitChars[d] = c) - 1

\* int(s) for a string of digits.
RECURSIVE IntOf(_)
IntOf(s) ==
    IF s = << >> THEN 0
    ELSE 10 * IntOf(SubSeq(s, 1, Len(s) - 1)) + DigitValue(s[Len(s)])

\* A number written with a fixed count of digits, as the queue does.
RECURSIVE Zfill(_, _)
Zfill(n, width) ==
    IF width = 0 THEN << >>
    ELSE Append(Zfill(n \div 10, width - 1), DigitChars[(n % 10) + 1])

\* datetime(year, month, day) accepts the date.
IsLeap(year) == (year % 4 = 0 /\ year % 100 /= 0) \/ year % 400 = 0

DaysIn(year, month) ==
    IF month = 2 THEN (IF IsLeap(year) THEN 29 ELSE 28)
    ELSE IF month \in {4, 6, 9, 11} THEN 30 ELSE 31

ValidDate(year, month, day) ==
    /\ month \in 1..12
    /\ day \in 1..DaysIn(year, month)

\* "yy >= 37": the pivot of the century rules.
CenturyPivot == 37

\* "Determine the full year".
FullYearAllBandsAlike(yy, ssss) ==
    IF yy >= CenturyPivot THEN 1900 + yy ELSE 2000 + yy
FullYear(yy, ssss) ==
    IF 0 <= ssss /\ ssss <= 1999
    THEN (IF yy >= CenturyPivot THEN 1900 + yy ELSE 2000 + yy)
    ELSE IF 2000 <= ssss /\ ssss <= 4999
    THEN 1900 + yy
    ELSE IF 5000 <= ssss /\ ssss <= 8999
    THEN (IF yy >= CenturyPivot THEN 1900 + yy ELSE 2000 + yy)
    ELSE (IF yy >= CenturyPivot THEN 1800 + yy ELSE 2000 + yy)

NoDate == [year |-> 0, month |-> 0, day |-> 0]

\* cpr_to_birthdate(ssn): the date, or NoDate where it raises ValueError.
cpr_to_birthdate(s) ==
    IF Len(s) /= 10 \/ ~IsDigitString(s) THEN NoDate
    ELSE LET day == IntOf(SubSeq(s, 1, 2))
             month == IntOf(SubSeq(s, 3, 4))
             yy == IntOf(SubSeq(s, 5, 6))
             ssss == IntOf(SubSeq(s, 7, 10))
             year == FullYear(yy, ssss)
         IN  IF ValidDate(year, month, day)
             THEN [year |-> year, month |-> month, day |-> day]
             ELSE NoDate

\* (today.month, today.day) < (birth_date.month, birth_date.day)
TupleLessOrEqual(a, b) == a[1] < b[1] \/ (a[1] = b[1] /\ a[2] <= b[2])
TupleLess(a, b) == a[1] < b[1] \/ (a[1] = b[1] /\ a[2] < b[2])

\* "return age < 16"
AgeLimit == 16

\* is_under_16 from the birth date on: the age, and the comparison.
age(t, b) ==
    t.year - b.year
      - (IF TupleLess(<<t.month, t.day>>, <<b.month, b.day>>) THEN 1 ELSE 0)

\* The numbers the identifiers are made of.
Days == {1, 28, 29, 31}
Months == {2, 6}
Years == {9, 10, 36, 37}
Personal == {0, 1999, 2000, 4999, 5000, 8999, 9000, 9999}

\* Identifiers of ten digits, and strings that are none.
Ssns ==
    {Zfill(d, 2) \o Zfill(m, 2) \o Zfill(y, 2) \o Zfill(p, 4) :
        d \in Days, m \in Months, y \in Years, p \in Personal}
    \cup {Zfill(1, 2) \o Zfill(13, 2) \o Zfill(10, 2) \o Zfill(1234, 4),
          Zfill(0, 2) \o Zfill(6, 2) \o Zfill(10, 2) \o Zfill(1234, 4)}
    \cup {<< >>,
          Zfill(10610, 6) \o Zfill(123, 3),
          Zfill(10610, 6) \o <<"-">> \o Zfill(1234, 4),
          Zfill(10610, 6) \o <<"1", "2", "x", "4">>,
          Zfill(10610, 6) \o Zfill(12345, 5)}

\* datetime.now(), to the day.
Todays ==
    {[year |-> y, month |-> m, day |-> d] :
        y \in {2025, 2026}, m \in {2, 6}, d \in {1, 28}}
    \cup {[year |-> 2025, month |-> 3, day |-> 1],
          [year |-> 2026, month |-> 5, day |-> 31]}

CprInit ==
    /\ c_pc = "cpr_to_birthdate"
    /\ ssn \in Ssns
    /\ today \in Todays
    /\ birth_date = NoDate
    /\ c_result = "-"

\* cpr_to_birthdate returns the date.
CprReturnsDate ==
    /\ c_pc = "cpr_to_birthdate"
    /\ cpr_to_birthdate(ssn) /= NoDate
    /\ birth_date' = cpr_to_birthdate(ssn)
    /\ c_pc' = "age"
    /\ UNCHANGED <<ssn, today, c_result>>
    /\ UNCHANGED notCpr

\* cpr_to_birthdate raises ValueError, and so does is_under_16.
CprRaisesValueError ==
    /\ c_pc = "cpr_to_birthdate"
    /\ cpr_to_birthdate(ssn) = NoDate
    /\ c_result' = "ValueError"
    /\ c_pc' = "raised"
    /\ UNCHANGED <<ssn, today, birth_date>>
    /\ UNCHANGED notCpr

\* is_under_16 returns "age < 16".
CprReturnsUnder16 ==
    /\ c_pc = "age"
    /\ c_result' = IF age(today, birth_date) < AgeLimit THEN "True"
                   ELSE "False"
    /\ c_pc' = "returned"
    /\ UNCHANGED <<ssn, today, birth_date>>
    /\ UNCHANGED notCpr

CprNext ==
    \/ CprReturnsDate
    \/ CprRaisesValueError
    \/ CprReturnsUnder16

-----------------------------------------------------------------------------
(* edi_portal_handler against the portal: the already-sent check, the       *)
(* subject written, the send and the receipt search, over sequential runs   *)

\* Rows of the sent-messages table before the first run, header apart.
MaxSentRows == 2

\* Sequential runs for one patient.
MaxPortalRuns == 2

\* timedelta(days=30)
ThirtyDays == 30

\* Texts are sequences of characters. The subject of the constant is "S",
\* the patient's name "A"; "H" and "B" stand for the words
\* "på Tandklinikken Hasle Torv" and "på Tandklinikken Brobjergparken".
BaseSubject == <<"S">>
PatientName == <<"A">>

\* context.subject = f"{base_subject} {patient_name}"
ContextSubject == BaseSubject \o <<" ">> \o PatientName

ContractorIds == {"477052", "470678", "123456"}

\* The subject edi_portal_add_content writes into the portal.
ContentSubjectPlain(contractorId) == BaseSubject \o <<" ">> \o PatientName
ContentSubject(contractorId) ==
    IF contractorId = "477052"
    THEN BaseSubject \o <<" ", "H", " ">> \o PatientName
    ELSE IF contractorId = "470678"
    THEN BaseSubject \o <<" ", "B", " ">> \o PatientName
    ELSE BaseSubject \o <<" ">> \o PatientName

\* "subject not in message", negated: subject is a substring of message.
SubjectIsMessage(sub, message) == sub = message
SubjectIn(sub, message) ==
    \E k \in 0..(Len(message) - Len(sub)) :
        SubSeq(message, k + 1, k + Len(sub)) = sub

\* A datetime <<year, month, day, hour, minute>> as minutes on one scale.
RECURSIVE DaysBeforeYear(_)
DaysBeforeYear(year) ==
    IF year <= 2025 THEN 0
    ELSE DaysBeforeYear(year - 1) + (IF IsLeap(year - 1) THEN 366 ELSE 365)

RECURSIVE DaysBeforeMonth(_, _)
DaysBeforeMonth(year, month) ==
    IF month = 1 THEN 0
    ELSE DaysBeforeMonth(year, month - 1) + DaysIn(year, month - 1)

Timestamp(dt) ==
    ((DaysBeforeYear(dt[1]) + DaysBeforeMonth(dt[1], dt[2]) + dt[3] - 1) * 24
        + dt[4]) * 60 + dt[5]

\* "parsed_date > one_month_ago" with
\* one_month_ago = datetime.now() - timedelta(days=30)
NotBeforeOneMonthAgo(parsed_date, t) ==
    Timestamp(parsed_date) >= Timestamp(t) - ThirtyDays * 24 * 60
AfterOneMonthAgo(parsed_date, t) ==
    Timestamp(parsed_date) > Timestamp(t) - ThirtyDays * 24 * 60

\* The loop of edi_portal_is_patient_data_sent from row r on: rows without
\* the subject and rows whose date does not parse are passed over, the first
\* row with a date after one_month_ago ends the loop with success.
RECURSIVE SentScan(_, _, _, _)
SentScan(t, sub, t_now, r) ==
    IF r \notin ScanRows(Len(t)) THEN FALSE
    ELSE IF ~SubjectIn(sub, t[r + 1].message)
         THEN SentScan(t, sub, t_now, r + 1)
    ELSE IF ParseDate(t[r + 1].date) = None
         THEN SentScan(t, sub, t_now, r + 1)
    ELSE IF AfterOneMonthAgo(ParseDate(t[r + 1].date), t_now) THEN TRUE
    ELSE SentScan(t, sub, t_now, r + 1)

\* edi_portal_is_patient_data_sent(subject) when no lookup fails.
edi_portal_is_patient_data_sent(t, sub, t_now) == SentScan(t, sub, t_now, 1)

\* edi_portal_get_journal_sent_receip(subject) finds a row: some row of the
\* loop has the subject as its message and a date that parses.
ReceiptRowFound(t, sub) ==
    \E r \in ScanRows(Len(t)) :
        sub = t[r + 1].message /\ ParseDate(t[r + 1].date) /= None

\* The portal writes a point in time as "11-09-2025 13:28".
FormatDate(dt) == <<dt[3], dt[2], dt[1], dt[4], dt[5]>>

\* The portal lists a sent message first, below the header row.
ListSent(t, message, t_now) ==
    <<t[1]>> \o <<[message |-> message, date |-> FormatDate(t_now)]>>
        \o SubSeq(t, 2, Len(t))

\* The points in time of the runs.
PortalTimes ==
    << <<2025, 10, 2, 8, 0>>, <<2025, 10, 11, 13, 28>>,
       <<2025, 11, 20, 9, 0>> >>

\* The first row of the table: the header, or a row like any other.
HeaderRows ==
    {[message |-> <<"E">>, date |-> << >>],
     [message |-> ContextSubject, date |-> <<2, 10, 2025, 8, 0>>]}

\* The messages the table lists before the first run: this patient's, that
\* of a patient whose name goes on, and another one.
PortalMessages == {ContextSubject, ContextSubject \o <<"x">>, <<"o">>}

\* The date texts it shows: one that does not parse, and two that do.
PortalDates ==
    {<<2025, 9, 11, 13, 28>>, <<11, 9, 2025, 13, 28>>, <<2, 10, 2025, 8, 0>>}

PortalTables ==
    {<<h>> \o rows :
        h \in HeaderRows,
        rows \in UNION {[1..n -> [message : PortalMessages,
                                  date : PortalDates]] : n \in 0..MaxSentRows}}

PortalInit ==
    /\ m_pc = "is_patient_data_sent"
    /\ m_table \in PortalTables
    /\ m_now \in {PortalTimes[i] : i \in DOMAIN PortalTimes}
    /\ m_contractor \in ContractorIds
    /\ m_run = 1
    /\ m_check = "-"
    /\ m_timed_out = FALSE
    /\ m_written = None
    /\ m_sends = << >>
    /\ m_result = "-"

\* Step 1 returns: True sets skip_steps, and the next step called is the
\* receipt step; False goes on to the send steps.
PortalCheck ==
    /\ m_pc = "is_patient_data_sent"
    /\ LET sent == edi_portal_is_patient_data_sent(m_table, ContextSubject,
                                                   m_now)
       IN  /\ m_check' = IF sent THEN "True" ELSE "False"
           /\ m_pc' = IF sent THEN "get_journal_sent_receip"
                      ELSE "go_to_send_journal"
    /\ UNCHANGED <<m_table, m_now, m_contractor, m_run, m_timed_out,
                   m_written, m_sends, m_result>>
    /\ UNCHANGED notPortal

\* A lookup of step 1 times out: "except TimeoutError: return False".
PortalCheckTimesOut ==
    /\ m_pc = "is_patient_data_sent"
    /\ m_check' = "False"
    /\ m_timed_out' = TRUE
    /\ m_pc' = "go_to_send_journal"
    /\ UNCHANGED <<m_table, m_now, m_contractor, m_run, m_written, m_sends,
                   m_result>>
    /\ UNCHANGED notPortal

\* The steps between: navigation and receiver, then upload and the buttons.
PortalStepReturns ==
    /\ m_pc \in {"go_to_send_journal", "upload_files"}
    /\ m_pc' = IF m_pc = "go_to_send_journal" THEN "add_content"
               ELSE "send_message"
    /\ UNCHANGED <<m_table, m_now, m_contractor, m_run, m_check,
                   m_timed_out, m_written, m_sends, m_result>>
    /\ UNCHANGED notPortal

\* A step raises; the handler raises RuntimeError in its place.
PortalStepRaises ==
    /\ m_pc \in {"is_patient_data_sent", "go_to_send_journal", "add_content",
                 "upload_files", "send_message", "get_journal_sent_receip",
                 "rename_file"}
    /\ m_result' = "RuntimeError"
    /\ m_pc' = "raised"
    /\ UNCHANGED <<m_table, m_now, m_contractor, m_run, m_check,
                   m_timed_out, m_written, m_sends>>
    /\ UNCHANGED notPortal

\* edi_portal_add_content sets the subject field.
PortalAddContent ==
    /\ m_pc = "add_content"
    /\ m_written' = ContentSubject(m_contractor)
    /\ m_pc' = "upload_files"
    /\ UNCHANGED <<m_table, m_now, m_contractor, m_run, m_check,
                   m_timed_out, m_sends, m_result>>
    /\ UNCHANGED notPortal

\* edi_portal_send_message: the portal lists the message with the subject
\* written and the time of the send.
PortalSend ==
    /\ m_pc = "send_message"
    /\ m_sends' = Append(m_sends, m_now)
    /\ m_table' = ListSent(m_table, m_written, m_now)
    /\ m_pc' = "get_journal_sent_receip"
    /\ UNCHANGED <<m_now, m_contractor, m_run, m_check, m_timed_out,
                   m_written, m_result>>
    /\ UNCHANGED notPortal

\* The receipt step: a row is found and its receipt saved, or
\* "raise RuntimeError('Message not sent.')", wrapped by the handler.
PortalReceipt ==
    /\ m_pc = "get_journal_sent_receip"
    /\ IF ReceiptRowFound(m_table, ContextSubject)
         THEN /\ m_pc' = "rename_file"
              /\ UNCHANGED m_result
         ELSE /\ m_pc' = "raised"
              /\ m_result' = "RuntimeError: Message not sent."
    /\ UNCHANGED <<m_table, m_now, m_contractor, m_run, m_check,
                   m_timed_out, m_written, m_sends>>
    /\ UNCHANGED notPortal

\* rename_file returns, and the handler returns the path.
PortalReturn ==
    /\ m_pc = "rename_file"
    /\ m_result' = "receipt_path"
    /\ m_pc' = "returned"
    /\ UNCHANGED <<m_table, m_now, m_contractor, m_run, m_check,
                   m_timed_out, m_written, m_sends>>
    /\ UNCHANGED notPortal

\* The next run for the patient, at a later time.
PortalNextRun ==
    /\ m_pc \in {"returned", "raised"}
    /\ m_run < MaxPortalRuns
    /\ \E i \in DOMAIN PortalTimes :
          /\ Timestamp(PortalTimes[i]) > Timestamp(m_now)
          /\ m_now' = PortalTimes[i]
    /\ m_run' = m_run + 1
    /\ m_pc' = "is_patient_data_sent"
    /\ m_check' = "-"
    /\ m_timed_out' = FALSE
    /\ m_written' = None
    /\ m_result' = "-"
    /\ UNCHANGED <<m_table, m_contractor, m_sends>>
    /\ UNCHANGED notPortal

PortalNext ==
    \/ PortalCheck
    \/ PortalCheckTimesOut
    \/ PortalStepReturns
    \/ PortalStepRaises
    \/ PortalAddContent
    \/ PortalSend
    \/ PortalReceipt
    \/ PortalReturn
    \/ PortalNextRun

-----------------------------------------------------------------------------
(* initalization_checks: the checks of a run, in order                      *)

\* The methods of InitializationChecks in the order initalization_checks
\* calls them.
CheckOrder ==
    << "check_primary_clinic_data", "check_extern_clinic_data",
       "check_extern_clinic_deal", "check_administrative_note",
       "check_other_documents", "check_contractor_data" >>

\* The exception codes each method raises BusinessError for, in the order of
\* its if statements.
CodesOf(method) ==
    CASE method = "check_primary_clinic_data" -> <<"1A">>
      [] method = "check_extern_clinic_data" -> <<"1B", "1C", "1E">>
      [] method = "check_extern_clinic_deal" -> <<"1D">>
      [] method = "check_administrative_note" -> <<"1F">>
      [] method = "check_other_documents" -> <<"1I">>
      [] method = "check_contractor_data" -> <<"1G", "1H">>

\* "if not result and self.queue_element_data['tandplejeplan'] is True"
NoNote(note, tandplejeplan) == ~note
NoNoteWithPlan(note, tandplejeplan) == ~note /\ tandplejeplan = "true"

\* The condition of the if statement that raises the code.
Broken(code, db) ==
    CASE code = "1A" -> ~db.primary
      [] code = "1B" -> db.extern = "none"
      [] code = "1C" -> db.extern \in {"no_contractor", "neither"}
      [] code = "1E" -> db.extern \in {"no_phone", "neither"}
      [] code = "1D" -> ~db.deal
      [] code = "1F" -> NoNoteWithPlan(db.note, db.tandplejeplan)
      [] code = "1I" -> ~db.documents /\ db.regionstilsagn = "true"
      [] code = "1G" -> db.contractor = "no_rows"
      [] code = "1H" -> db.contractor = "phone_mismatch"

\* The first if statement of the method whose condition holds, 0 for none.
FirstBroken(method, db) ==
    LET codes == CodesOf(method)
        hits == {i \in DOMAIN codes : Broken(codes[i], db)}
    IN  IF hits = {} THEN 0 ELSE CHOOSE i \in hits : \A j \in hits : i <= j

\* What the database, the queue item and the portal hold for the patient.
CheckInputs ==
    [primary : BOOLEAN,
     extern : {"none", "no_contractor", "no_phone", "neither", "ok"},
     deal : BOOLEAN,
     note : BOOLEAN,
     tandplejeplan : {"true", "false"},
     documents : BOOLEAN,
     regionstilsagn : {"true", "false"},
     contractor : {"no_rows", "phone_mismatch", "ok"}]

ChecksInit ==
    /\ k_pc = "constants"
    /\ k_db \in CheckInputs
    /\ k_calls = << >>
    /\ k_code = "-"
    /\ k_result = "-"
    /\ k_technical = FALSE

\* Both connection strings are set.
ChecksBegin ==
    /\ k_pc = "constants"
    /\ k_pc' = CheckOrder[1]
    /\ UNCHANGED <<k_db, k_calls, k_code, k_result, k_technical>>
    /\ UNCHANGED notChecks

\* "if not solteq_tand_db_conn: raise ValueError", and the like for
\* rpa_db_connstr.
ChecksNoConnection ==
    /\ k_pc = "constants"
    /\ k_result' = "ValueError"
    /\ k_technical' = TRUE
    /\ k_pc' = "raised"
    /\ UNCHANGED <<k_db, k_calls, k_code>>
    /\ UNCHANGED notChecks

\* The place after a method that returned.
AfterCheck(method) ==
    LET i == CHOOSE j \in DOMAIN CheckOrder : CheckOrder[j] = method
    IN  IF i = Len(CheckOrder) THEN "returned" ELSE CheckOrder[i + 1]

\* Where a method's exception goes: check_contractor_data calls
\* close_edi_portal in its except clauses before it raises again.
RaisedFrom(method) ==
    IF method = "check_contractor_data" THEN "cc_except" ELSE "raised"

\* The method finds nothing wrong and returns.
CheckPasses ==
    /\ k_pc \in {CheckOrder[i] : i \in DOMAIN CheckOrder}
    /\ FirstBroken(k_pc, k_db) = 0
    /\ k_calls' = Append(k_calls, k_pc)
    /\ k_pc' = AfterCheck(k_pc)
    /\ k_result' = IF AfterCheck(k_pc) = "returned" THEN "returned"
                   ELSE k_result
    /\ UNCHANGED <<k_db, k_code, k_technical>>
    /\ UNCHANGED notChecks

\* The method raises BusinessError with the code of its first if statement
\* whose condition holds.
CheckRaisesBusinessError ==
    /\ k_pc \in {CheckOrder[i] : i \in DOMAIN CheckOrder}
    /\ FirstBroken(k_pc, k_db) /= 0
    /\ k_calls' = Append(k_calls, k_pc)
    /\ k_code' = CodesOf(k_pc)[FirstBroken(k_pc, k_db)]
    /\ k_result' = "BusinessError"
    /\ k_pc' = RaisedFrom(k_pc)
    /\ UNCHANGED <<k_db, k_technical>>
    /\ UNCHANGED notChecks

\* The database or the portal fails in the method: "except Exception",
\* log, raise.
CheckRaisesException ==
    /\ k_pc \in {CheckOrder[i] : i \in DOMAIN CheckOrder}
    /\ k_calls' = Append(k_calls, k_pc)
    /\ k_result' = "Exception"
    /\ k_technical' = TRUE
    /\ k_pc' = RaisedFrom(k_pc)
    /\ UNCHANGED <<k_db, k_code>>
    /\ UNCHANGED notChecks

\* The except clauses of check_contractor_data: close_edi_portal returns and
\* the exception is raised again, or close_edi_portal raises and its
\* exception is the one that leaves the method.
ContractorCloseThenRaise ==
    /\ k_pc = "cc_except"
    /\ \/ UNCHANGED <<k_result, k_technical, k_code>>
       \/ /\ k_result' = "Exception"
          /\ k_technical' = TRUE
          /\ k_code' = "-"
    /\ k_pc' = "raised"
    /\ UNCHANGED <<k_db, k_calls>>
    /\ UNCHANGED notChecks

ChecksNext ==
    \/ ChecksBegin
    \/ ChecksNoConnection
    \/ CheckPasses
    \/ CheckRaisesBusinessError
    \/ CheckRaisesException
    \/ ContractorCloseThenRaise

-----------------------------------------------------------------------------
(* Properties of the step pipeline                                          *)

Called(j) == \E k \in DOMAIN executed : executed[k] = j

TimesCalled(j) == Cardinality({k \in DOMAIN executed : executed[k] = j})

CalledBefore(i, j) ==
    \E k, l \in DOMAIN executed : k < l /\ executed[k] = i /\ executed[l] = j

Tail1 == Len(pipeline) - 1
Tail2 == Len(pipeline)

\* The first loop ran to its end without raising.
MainFinished ==
    \/ h_pc \in {"tail", "ret", "returned"}
    \/ h_pc = "raised" /\ failed_step \in TailRegion(pipeline)

\* C1: once a main-region step has returned a truthy value, the flag
\* skip_steps is set and stays set, and no later main-region step is called.
SkipIsPermanent ==
    \A i \in MainRegion(pipeline) :
        (Called(i) /\ Truthy(retval[i])) =>
            /\ skip_steps
            /\ \A j \in MainRegion(pipeline) : j > i => ~Called(j)

\* A run that returned after a main-region step with later main-region steps
\* behind it returned a truthy value.
SkipIsPermanentWitness ==
    /\ h_pc = "returned"
    /\ \E i \in MainRegion(pipeline) :
          Called(i) /\ Truthy(retval[i]) /\ i + 1 \in MainRegion(pipeline)

\* C2: when the main region finished without raising, in either state of the
\* flag, the tail is run: the receipt retrieval is called exactly once, the
\* rename exactly once after it unless the retrieval raised, no tail step is
\* called while the main region is running, and a handler that returns has
\* called both, retrieval first.
TailAlwaysRuns ==
    /\ h_pc \in {"start", "main"} => ~Called(Tail1) /\ ~Called(Tail2)
    /\ TimesCalled(Tail1) <= 1 /\ TimesCalled(Tail2) <= 1
    /\ Called(Tail2) => CalledBefore(Tail1, Tail2)
    /\ (MainFinished /\ h_pc \in {"ret", "returned", "raised"}) =>
          /\ TimesCalled(Tail1) = 1
          /\ failed_step # Tail1 => TimesCalled(Tail2) = 1
    /\ h_pc \in {"ret", "returned"} =>
          /\ Len(executed) >= 2
          /\ executed[Len(executed) - 1] = Tail1
          /\ executed[Len(executed)] = Tail2

\* The already-sent check returned True, the main region was bypassed, and
\* the handler returned after running both tail steps.
TailAlwaysRunsWitness ==
    /\ pipeline = EdiPipeline
    /\ h_pc = "returned"
    /\ skip_steps
    /\ executed = <<1, Tail1, Tail2>>

\* C3 as stated: in a five-step pipeline whose step 2 returns true, steps 3
\* and 4 are not called, and the final two steps are called regardless.
FiveStepSkipsThreeAndFour ==
    (Len(pipeline) = 5 /\ Called(2) /\ Truthy(retval[2])) =>
        /\ ~Called(3)
        /\ ~Called(4)
        /\ h_pc = "returned" => Called(4) /\ Called(5)

\* C3 amended: in a five-step pipeline whose step 2 returns true, step 3 (the
\* one main-region step left) is not called; step 4 is one of the final two
\* and is called, and a handler that returns has called both 4 and 5.
FiveStepSkipsThree ==
    (Len(pipeline) = 5 /\ Called(2) /\ Truthy(retval[2])) =>
        /\ ~Called(3)
        /\ h_pc \in {"ret", "returned", "raised"} => Called(4)
        /\ h_pc \in {"ret", "returned"} => Called(4) /\ Called(5)

FiveStepSkipsThreeWitness ==
    /\ Len(pipeline) = 5
    /\ h_pc = "returned"
    /\ Truthy(retval[2])
    /\ executed = <<1, 2, 4, 5>>

\* C4: when a step raises, no further step is called and the handler raises
\* a RuntimeError chained to the underlying error whose message tells which
\* step failed: no other step of the pipeline could have produced it.
StepFailureIdentified ==
    (h_pc = "raised" /\ failed_step # 0) =>
        /\ executed[Len(executed)] = failed_step
        /\ h_error.kind = "RuntimeError"
        /\ h_error.cause \in Raises(pipeline[failed_step].call)
        /\ \A j \in 1..Len(pipeline) :
              ( /\ pipeline[j].dunder_name = h_error.step_name
                /\ h_error.cause \in Raises(pipeline[j].call) ) => j = failed_step

\* The part of C4 the code keeps: abort at once, RuntimeError chained to the
\* underlying error.
StepFailureAborts ==
    (h_pc = "raised" /\ failed_step # 0) =>
        /\ executed[Len(executed)] = failed_step
        /\ h_error.kind = "RuntimeError"
        /\ h_error.cause \in Raises(pipeline[failed_step].call)

\* C5: the handler returns the renamed receipt's path on success, and on
\* failure it returns None (it does not raise).
ReturnsPathOrNone ==
    /\ (pipeline = EdiPipeline /\ h_pc = "returned" /\ failed_step = 0) =>
          h_result = "Downloads/EDI Portal - patient_name.pdf"
    /\ h_pc # "raised"
    /\ failed_step # 0 => (h_pc = "returned" => h_result = "None")

-----------------------------------------------------------------------------
(* Properties of the presence-gated actions                                 *)

\* The run of worker w has dealt with gate g.
PastGate(w, g) ==
    /\ p_looked[w][g] # "-"
    /\ ~(p_pc[w] \in CreateSteps /\ GateAt(w) = g)

\* C6: within a run, each gate's creation is called exactly once when its
\* lookup returned nothing and is not called when the lookup returned
\* something; no gate's creation is called twice.
GateCreatesOnce ==
    \A w \in Workers : \A g \in Gates :
        /\ p_invoked[w][g] <= 1
        /\ p_looked[w][g] \in {"-", "found"} => p_invoked[w][g] = 0
        /\ (p_looked[w][g] = "empty" /\ PastGate(w, g)) => p_invoked[w][g] = 1

\* A run that returned after creating at one gate and skipping another.
GateCreatesOnceWitness ==
    \E w \in Workers :
        /\ p_outcome[w] = "returned"
        /\ p_pc[w] = "idle"
        /\ \E g1, g2 \in Gates :
              /\ p_looked[w][g1] = "empty" /\ p_invoked[w][g1] = 1
              /\ p_looked[w][g2] = "found" /\ p_invoked[w][g2] = 0

\* C7: with runs one after the other, a creation is never called while the
\* store holds a record of that patient and key created within the last
\* month: once a run's creation is stored, no later run within the window
\* creates again.
CreateOncePerWindow ==
    [][\A w \in Workers :
          (p_pc[w] \in CreateSteps /\ p_invoked'[w] # p_invoked[w]) =>
              ~\E r \in store :
                  /\ r.patient = p_patient[w]
                  /\ r.key = Key(GateAt(w), p_under16[w])
                  /\ now - r.created <= OneMonth]_vars

\* A second run, within a month of the first, that found the first run's
\* discharge document and medical record and created neither.
CreateOncePerWindowWitness ==
    /\ runs_started = 2
    /\ p_outcome[1] = "returned"
    /\ p_pc[1] = "idle"
    /\ p_looked[1]["discharge"] = "found" /\ p_invoked[1]["discharge"] = 0
    /\ p_looked[1]["journal"] = "found" /\ p_invoked[1]["journal"] = 0
    /\ \E r \in store : r.key = "Journaludskrift" /\ now - r.created = OneMonth

\* C8 as stated: every presence check applies the one-month window: a check
\* finds something only if a matching record of the last month exists.
EveryCheckWindowed ==
    \A w \in Workers : \A g \in Gates :
        p_looked[w][g] = "found" => p_saw[w][g] = "recent"

\* C8 amended: the document and administrative-note checks find something
\* exactly when a matching record of the last month exists; the event check
\* and the booking-reminder checks have no window and find something exactly
\* when a matching record of any age exists.
DocumentChecksWindowed ==
    \A w \in Workers : \A g \in Gates :
        p_looked[w][g] # "-" =>
            IF g \in WindowedGates
              THEN p_looked[w][g] = "found" <=> p_saw[w][g] = "recent"
              ELSE p_looked[w][g] = "found" <=> p_saw[w][g] \in {"old", "recent"}

\* A run that created the medical record over one older than a month, and
\* skipped the event because of one older than a month.
DocumentChecksWindowedWitness ==
    \E w \in Workers :
        /\ p_saw[w]["journal"] = "old" /\ p_invoked[w]["journal"] = 1
        /\ p_saw[w]["event"] = "old" /\ p_looked[w]["event"] = "found"

\* C9: with two runs in progress at once, nothing holds a creation back: a
\* run whose lookup returned nothing calls its creation whatever the other
\* run has stored since.
ConcurrentRunsBothCreate ==
    \A w \in Workers : \A g \in Gates :
        (p_looked[w][g] = "empty" /\ PastGate(w, g)) => p_invoked[w][g] = 1

\* Two runs for one patient, both in progress, that both saw an empty lookup
\* at a gate and both called its creation.
DoubleCreate ==
    /\ p_patient[1] = p_patient[2]
    /\ p_pc[1] \notin {"idle", "close_patient_window"}
    /\ p_pc[2] \notin {"idle", "close_patient_window"}
    /\ \E g \in Gates :
          /\ PastGate(1, g) /\ PastGate(2, g)
          /\ p_looked[1][g] = "empty" /\ p_looked[2][g] = "empty"
          /\ p_invoked[1][g] = 1 /\ p_invoked[2][g] = 1
          /\ \E r \in store :
                r.patient = p_patient[1] /\ r.key = Key(g, p_under16[1])

-----------------------------------------------------------------------------
(* Properties of the polling wait                                           *)

WaitOutcome ==
    /\ w_result \in {"-", "control", "TimeoutError"}
    /\ w_pc = "returned" =>
          /\ w_result = "control"
          /\ w_attempt > 0
          /\ w_first_hit = w_attempt
    /\ w_pc = "raised" =>
          /\ w_result = "TimeoutError"
          /\ w_clock >= w_end_time
    /\ w_first_hit # 0 => w_pc = "returned"
    /\ w_pc \in {"returned", "raised"} <=> w_result # "-"

\* C10: every call of wait_for_control ends, and ends in one of two ways: it
\* returns the control at the first attempt whose "if" query found the
\* element, or it raises TimeoutError once the clock has reached end_time;
\* a lookup that raises only ends its attempt.
WaitEndsFoundOrTimeout ==
    /\ []WaitOutcome
    /\ <>(w_pc \in {"returned", "raised"})

\* A call whose lookup raised in one attempt and that returned the control
\* in a later one.
WaitEndsFoundOrTimeoutWitness ==
    /\ w_pc = "returned"
    /\ w_failed
    /\ w_attempt >= 2
    /\ w_result = "control"

\* C11: wait_for_control_to_disappear ends by returning: True when a poll
\* found the element absent, False (never an exception) when the timeout
\* elapsed with the element still found.
DisappearReturnsBool ==
    /\ d_pc # "raised"
    /\ d_pc = "returned" =>
          \/ d_result = "True" /\ d_seen_absent
          \/ d_result = "False" /\ ~d_seen_absent /\ d_clock >= d_end_time

\* What the call does do: True after a poll that found the element absent,
\* TimeoutError once the clock has reached end_time.
DisappearTrueOrTimeout ==
    /\ d_pc = "returned" => d_result = "True" /\ d_seen_absent
    /\ d_pc = "raised" =>
          d_result = "TimeoutError" /\ ~d_seen_absent /\ d_clock >= d_end_time
    /\ d_result # "False"

-----------------------------------------------------------------------------
(* Properties of the upload wait                                            *)

\* C12: once the file dialog is confirmed, the loop checks for the indicator
\* again and again; the first check that does not find it is the last check,
\* at most 36 checks find it (5 deducted from 180 each time), and the loop
\* ends by returning, also when the budget runs out with the indicator still
\* there: an exception can only come from before the first check.
UploadPollBounded ==
    /\ u_found * UploadPoll <= UploadBudget
    /\ u_pc \notin {"root_web_area", "raised"} =>
          u_timeout = UploadBudget - UploadPoll * u_found
    /\ element_gone => u_checks = u_found + 1 /\ u_pc \in {"loop", "returned"}
    /\ ~element_gone => u_checks \in {u_found, u_found + 1}
    /\ u_pc = "returned" =>
          /\ u_result = "None"
          /\ element_gone \/ u_found * UploadPoll = UploadBudget
    /\ u_pc = "raised" => u_checks = 0

\* The budget ran out with the indicator found by every check, and the
\* function returned.
UploadPollBoundedWitness ==
    /\ u_pc = "returned"
    /\ ~element_gone
    /\ u_found * UploadPoll = UploadBudget
    /\ u_timeout = 0

-----------------------------------------------------------------------------
(* Properties of the receipt scan                                           *)

\* A date text of the form DD-MM-YYYY HH:MM.
Parsable(text) ==
    /\ Len(text) = 5
    /\ text[1] \in 1..31 /\ text[2] \in 1..12
    /\ text[4] \in 0..23 /\ text[5] \in 0..59

\* The point in time such a text names, in minutes.
Minutes(text) ==
    (((text[3] * 12 + text[2]) * 31 + text[1]) * 24 + text[4]) * 60 + text[5]

\* The non-header rows whose message is the subject and whose date parses.
Qualifying(t) ==
    {r \in 1..(Len(t) - 1) :
        t[r + 1].message = Subject /\ Parsable(t[r + 1].date)}

\* Those of them that no other one is later than.
Latest(t) ==
    {r \in Qualifying(t) :
        \A q \in Qualifying(t) : Minutes(t[q + 1].date) <= Minutes(t[r + 1].date)}

\* The scan has visited every row.
ScanFinished == r_pc \in {"decide", "menu", "save_clicked"}

\* C13: when the scan has visited every row and some non-header row with the
\* subject has a parsable timestamp, the row chosen, and then clicked, is one
\* with the latest such timestamp; rows with an empty or unparsable timestamp
\* neither count nor stop the scan.
LatestRowSelected ==
    /\ (ScanFinished /\ Qualifying(table) # {}) =>
          /\ latest_matching_row # None
          /\ latest_matching_row[1] \in Latest(table)
    /\ r_clicked # None =>
          /\ r_clicked = latest_matching_row
          /\ r_clicked[1] \in Latest(table)

\* A matching row with an unparsable timestamp came before the matching rows
\* with parsable ones; the later of those two, which reads as the smaller
\* text, was clicked.
LatestRowSelectedWitness ==
    /\ r_pc = "save_clicked"
    /\ Len(table) = 4
    /\ \A r \in 1..3 : MessageOf(table, r) = Subject
    /\ DateOf(table, 1) = <<2025, 9, 11, 13, 28>>
    /\ DateOf(table, 2) = <<2, 10, 2025, 8, 0>>
    /\ DateOf(table, 3) = <<11, 9, 2025, 13, 28>>
    /\ r_clicked = <<2>>

\* C14: when no non-header row qualifies (no rows at all, no row with the
\* subject, only the header row with it, or only unparsable timestamps on
\* the rows with it) the scan ends in RuntimeError "Message not sent." and no
\* row menu is clicked.
NotSentWhenNoRowQualifies ==
    /\ [](Qualifying(table) = {} =>
             /\ r_clicked = None
             /\ r_pc \notin {"menu", "save_clicked"}
             /\ r_pc = "decide" => ~success_message)
    /\ [][(r_pc = "decide" /\ Qualifying(table) = {}) =>
             /\ r_pc' = "raised"
             /\ r_result' = "RuntimeError: Message not sent."]_vars

\* The header row has the subject and a good timestamp, the only other row
\* with the subject has an unparsable one, and the scan raised "Message not
\* sent.".
NotSentWhenNoRowQualifiesWitness ==
    /\ r_pc = "raised"
    /\ r_result = "RuntimeError: Message not sent."
    /\ r_clicked = None
    /\ Len(table) = 3
    /\ table[1] = [message |-> Subject, date |-> <<11, 9, 2025, 13, 28>>]
    /\ MessageOf(table, 1) = "other"
    /\ table[3] = [message |-> Subject, date |-> <<2025, 9, 11, 13, 28>>]

-----------------------------------------------------------------------------
(* Properties of the receipt download                                       *)

DownloadOutcome ==
    /\ f_pc = "returned" =>
          /\ f_result = "receipt"
          /\ f_polls > 0
          /\ f_first_seen = f_polls
    /\ f_pc = "raised" =>
          /\ f_result = "FileNotFoundError"
          /\ f_first_seen = 0
          /\ f_clock - start_time >= DownloadTimeout
    /\ f_first_seen # 0 => f_pc = "returned"
    /\ f_pc \in {"returned", "raised"} <=> f_result # "-"

\* C15: after the click on "Gem som PDF" the function polls the Downloads
\* folder and ends: it returns the file at the first poll that finds one, or,
\* no poll having found one, raises FileNotFoundError once 60 s have passed
\* (and then returns nothing).
DownloadReturnsOrNotFound ==
    /\ []DownloadOutcome
    /\ <>(f_pc \in {"returned", "raised"})

\* The file was not there for the first polls and was returned by a later
\* one, within the budget.
DownloadReturnsOrNotFoundWitness ==
    /\ f_pc = "returned"
    /\ f_polls >= 3
    /\ f_result = "receipt"
    /\ f_clock - start_time < DownloadTimeout

-----------------------------------------------------------------------------
(* Properties of a run of process                                           *)

\* C16: a run in which a BusinessError was raised ends with process raising
\* BusinessError to its caller, not an error of another kind.
BusinessErrorReachesCaller ==
    (x_pc = "done" /\ x_first.kind = "BusinessError") =>
        x_outcome = "BusinessError"

\* The calls made for cleanup.
CleanupCalls == {"cc_except_close", "edi_except_close", "close_patient_window"}

WindowCloses ==
    Cardinality({i \in DOMAIN x_calls : x_calls[i] = "close_patient_window"})

\* C18: a run that got past release_keys ends, however it ends, with
\* close_patient_window called exactly once, as the last call of the run.
PatientWindowClosedOnce ==
    /\ WindowCloses <= 1
    /\ x_pc = "done" <=> x_outcome # "-"
    /\ (x_pc = "done" /\ x_first.step # "release_keys") =>
          /\ WindowCloses = 1
          /\ x_calls[Len(x_calls)] = "close_patient_window"

\* The queue element was None: process returned early, the patient window
\* closed on the way out.
PatientWindowClosedOnceWitness ==
    /\ x_pc = "done"
    /\ queue_element = "None"
    /\ x_outcome = "returned"
    /\ x_calls = <<"release_keys", "kill_application", "close_patient_window">>

-----------------------------------------------------------------------------
(* Properties of the image batch                                            *)

\* C20 as stated: at most 4 tasks run at once, and when a task has failed
\* its exception goes to the caller with the batch aborted: the tasks that
\* had not finished when the failure was met are not processed.
BatchAbortedOnFailure ==
    /\ Cardinality(Running) <= 4
    /\ (i_pc = "raised" /\ i_exc.kind = "task") =>
          /\ task[i_exc.task] = "failed"
          /\ \A t \in i_left : task[t] \notin {"done", "failed"}

\* C20 amended: at most 4 tasks run at once, and when a task has failed its
\* exception goes to the caller, but only once every task handed to the
\* executor has run: the tasks that had not finished when the failure was
\* met are processed all the same, their results are just not looked at.
FailureReraisedAfterAllRan ==
    /\ Cardinality(Running) <= 4
    /\ (i_pc = "raised" /\ i_exc.kind = "task") =>
          /\ task[i_exc.task] = "failed"
          /\ \A t \in i_left : task[t] \in {"done", "failed"} /\ t \notin i_seen
    /\ i_pc \in {"returned", "raised"} => Queued \cup Running = {}
    /\ i_pc = "returned" =>
          \A t \in ImageIds :
             /\ task[t] \in {"-", "done"}
             /\ (task[t] = "done" => t \in i_seen)

\* The first task failed while four ran and one waited; the exception reached
\* the caller after the others had been processed.
FailureReraisedAfterAllRanWitness ==
    /\ i_pc = "raised"
    /\ i_exc = [kind |-> "task", task |-> 1]
    /\ Cardinality(i_left) = 4
    /\ \A t \in i_left : task[t] = "done"

-----------------------------------------------------------------------------
(* Properties of split_zip                                                  *)

RECURSIVE Flatten(_)
Flatten(bs) == IF bs = << >> THEN << >> ELSE Head(bs) \o Flatten(Tail(bs))

RECURSIVE SizeOf(_)
SizeOf(b) == IF b = << >> THEN 0 ELSE file_infos[Head(b)] + SizeOf(Tail(b))

\* C21: the buckets of split_zip hold the entries in their original order,
\* each entry in exactly one bucket; no bucket is empty; an entry larger
\* than max_size is alone in its bucket; every other bucket has a total
\* compressed size of at most max_size.
BucketsPartition ==
    z_pc \in {"write", "returned"} =>
        /\ Flatten(buckets) = [k \in 1..Len(file_infos) |-> k]
        /\ \A b \in 1..Len(buckets) :
              /\ buckets[b] /= << >>
              /\ \/ /\ Len(buckets[b]) = 1
                    /\ file_infos[buckets[b][1]] > max_size
                 \/ /\ \A k \in 1..Len(buckets[b]) :
                          file_infos[buckets[b][k]] <= max_size
                    /\ SizeOf(buckets[b]) <= max_size

\* An archive of four entries, one of them too large, split into three
\* buckets, one of them of two entries that fill it exactly.
BucketsPartitionWitness ==
    /\ z_pc = "returned"
    /\ file_infos = <<1, 1, 3, 2>>
    /\ max_size = 2
    /\ buckets = << <<1, 2>>, <<3>>, <<4>> >>

-----------------------------------------------------------------------------
(* Properties of cpr_to_birthdate and is_under_16                           *)

\* The identifier is ten digits.
TenDigits == Len(ssn) = 10 /\ IsDigitString(ssn)

\* The fields of an identifier of ten digits.
FieldDD == IntOf(SubSeq(ssn, 1, 2))
FieldMM == IntOf(SubSeq(ssn, 3, 4))
FieldYY == IntOf(SubSeq(ssn, 5, 6))
FieldSSSS == IntOf(SubSeq(ssn, 7, 10))

\* The documented century bands.
BandYear ==
    IF FieldSSSS \in 2000..4999 THEN 1900 + FieldYY
    ELSE IF FieldYY < 37 THEN 2000 + FieldYY
    ELSE IF FieldSSSS \in 9000..9999 THEN 1800 + FieldYY
    ELSE 1900 + FieldYY

\* C22: for an identifier DDMMYYSSSS of ten digits cpr_to_birthdate gives
\* the day DD, the month MM and the year of the documented century bands
\* (the constructor of the date raises ValueError when DD and MM are no day
\* of that year); for a string whose length is not 10 or that holds a
\* character that is no digit it raises ValueError.
BirthYearFollowsBands ==
    /\ (c_pc \in {"age", "returned"}) =>
          /\ TenDigits
          /\ birth_date =
                [year |-> BandYear, month |-> FieldMM, day |-> FieldDD]
    /\ (c_pc = "raised") =>
          /\ c_result = "ValueError"
          /\ \/ ~TenDigits
             \/ ~ValidDate(BandYear, FieldMM, FieldDD)
    /\ (c_pc /= "cpr_to_birthdate" /\ ~TenDigits) => c_pc = "raised"

\* An identifier of the band 9000-9999 with YY = 37 gave a date in 1837.
BirthYearFollowsBandsWitness ==
    /\ c_pc = "age"
    /\ ssn = <<"0", "1", "0", "6", "3", "7", "9", "0", "0", "0">>
    /\ birth_date = [year |-> 1837, month |-> 6, day |-> 1]

\* The current month and day are before the birth month and day.
BeforeBirthday ==
    \/ today.month < birth_date.month
    \/ today.month = birth_date.month /\ today.day < birth_date.day

\* The age in completed years.
CompletedYears ==
    today.year - birth_date.year - (IF BeforeBirthday THEN 1 ELSE 0)

\* C23: is_under_16 returns true exactly when the age in completed years
\* is less than 16, and false on the sixteenth birthday.
Under16IffAgeBelow16 ==
    c_pc = "returned" =>
        /\ c_result = "True" <=> CompletedYears < 16
        /\ c_result \in {"True", "False"}
        /\ (/\ today.year = birth_date.year + 16
            /\ today.month = birth_date.month
            /\ today.day = birth_date.day) => c_result = "False"

\* A patient born on 1 June 2009 is not under 16 on 1 June 2025.
Under16IffAgeBelow16Witness ==
    /\ c_pc = "returned"
    /\ birth_date = [year |-> 2009, month |-> 6, day |-> 1]
    /\ today = [year |-> 2025, month |-> 6, day |-> 1]
    /\ c_result = "False"

\* The identifier without its separators, character by character.
RECURSIVE Stripped(_)
Stripped(cpr) ==
    IF cpr = << >> THEN << >>
    ELSE IF Head(cpr) = "-" THEN Stripped(Tail(cpr))
    ELSE <<Head(cpr)>> \o Stripped(Tail(cpr))

\* C24: once loaded, the data of the queue item is what the queue held,
\* but for the separators removed from patient_cpr, and no step of the run
\* changes it afterwards.
QueueDataNeverMutated ==
    /\ [](queue_element_data /= NoData =>
             /\ queue_element_data.patient_cpr = Stripped(x_json.patient_cpr)
             /\ queue_element_data.patient_name = x_json.patient_name)
    /\ [][queue_element_data /= NoData =>
             queue_element_data' = queue_element_data]_vars
    /\ [][x_json' = x_json]_vars

\* A run came to its end after the EDI pipeline with the data it loaded.
QueueDataNeverMutatedWitness ==
    /\ x_pc = "done"
    /\ x_outcome = "returned"
    /\ x_json.patient_cpr = <<"0", "1", "0", "6", "1", "0", "-", "1", "2", "3", "4">>
    /\ queue_element_data.patient_cpr = <<"0", "1", "0", "6", "1", "0", "1", "2", "3", "4">>

-----------------------------------------------------------------------------
(* Properties of the handler against the portal                             *)

\* The days of 2025 before each month.
DaysBefore2025 == <<0, 31, 59, 90, 120, 151, 181, 212, 243, 273, 304, 334>>

\* The minutes of 2025 before a point in time <<day, month, hour, minute>>.
MinuteOf2025(day, month, hour, minute) ==
    (DaysBefore2025[month] + day - 1) * 1440 + hour * 60 + minute

\* A row of the table counts for the check: its message holds the subject
\* somewhere, its timestamp parses and lies after now minus 30 days.
RecentMatch(r) ==
    LET message == m_table[r + 1].message
        date == m_table[r + 1].date
    IN  /\ \E k \in 1..Len(message) :
              /\ k + 2 <= Len(message)
              /\ <<message[k], message[k + 1], message[k + 2]>> = <<"S", " ", "A">>
        /\ Parsable(date)
        /\ MinuteOf2025(date[1], date[2], date[4], date[5])
              > MinuteOf2025(m_now[3], m_now[2], m_now[4], m_now[5]) - 43200

\* The check has returned and the table is as the check saw it.
CheckReturned ==
    \/ m_pc \in {"go_to_send_journal", "add_content", "upload_files",
                 "send_message"}
    \/ m_pc = "get_journal_sent_receip" /\ m_check = "True"

-----------------------------------------------------------------------------
(* Properties of initalization_checks                                       *)

\* The checks in the order of the claim, with what makes each one fail.
FailsPrimaryClinic == ~k_db.primary
FailsExternalDentist == k_db.extern /= "ok"
FailsClinicDeal == ~k_db.deal
FailsAdministrativeNote == ~k_db.note /\ k_db.tandplejeplan = "true"
FailsOtherDocuments == ~k_db.documents /\ k_db.regionstilsagn = "true"
FailsContractor == k_db.contractor /= "ok"

FailingChecks ==
    (IF FailsPrimaryClinic THEN {1} ELSE {})
    \cup (IF FailsExternalDentist THEN {2} ELSE {})
    \cup (IF FailsClinicDeal THEN {3} ELSE {})
    \cup (IF FailsAdministrativeNote THEN {4} ELSE {})
    \cup (IF FailsOtherDocuments THEN {5} ELSE {})
    \cup (IF FailsContractor THEN {6} ELSE {})

\* The external dentist is checked for being set, then for the contractor
\* id, then for the phone number.
ExternCode ==
    IF k_db.extern = "none" THEN "1B"
    ELSE IF k_db.extern \in {"no_contractor", "neither"} THEN "1C"
    ELSE "1E"

ChecksInClaimOrder ==
    << "check_primary_clinic_data", "check_extern_clinic_data",
       "check_extern_clinic_deal", "check_administrative_note",
       "check_other_documents", "check_contractor_data" >>

RunSentMessage ==
    /\ m_check = "False"
    /\ m_sends /= << >>
    /\ m_sends[Len(m_sends)] = m_now

\* C27: in a run that sends the message, the subject written into the
\* portal is the subject the receipt step searches for, whatever the
\* contractor id, and the receipt step does not end in "Message not sent.".
SentSubjectIsReceiptSubject ==
    RunSentMessage =>
        /\ m_written = <<"S", " ", "A">>
        /\ m_result /= "RuntimeError: Message not sent."

\* C28: when the already-sent check has returned True, the receipt step on
\* the same table finds a row and does not end in "Message not sent.".
SkipImpliesReceiptRow ==
    m_check = "True" =>
        /\ \E r \in 1..(Len(m_table) - 1) :
              /\ m_table[r + 1].message = <<"S", " ", "A">>
              /\ Parsable(m_table[r + 1].date)
        /\ m_result /= "RuntimeError: Message not sent."

\* C29: the message is sent at most once within 30 days: of two calls of
\* edi_portal_send_message for the patient, the later one is at least 30
\* days after the earlier one.
SentAtMostOnceInThirtyDays ==
    \A i, j \in DOMAIN m_sends :
        i < j =>
            MinuteOf2025(m_sends[j][3], m_sends[j][2], m_sends[j][4], m_sends[j][5])
               - MinuteOf2025(m_sends[i][3], m_sends[i][2], m_sends[i][4], m_sends[i][5])
               >= 43200

\* The calls that change the patient's record or send something, and the
\* places of the initialization checks.
ChangingCalls ==
    {"update_patient_info", "create_event_if_not_created",
     "create_booking_reminders", "handle_discharge_document",
     "check_and_send_discharge_document",
     "check_and_create_medical_record_document", "edi_portal_handler",
     "edi_receipt_document", "administrative_note"}

CheckCalls ==
    {"check_primary_clinic_data", "check_extern_clinic_data",
     "check_extern_clinic_deal", "check_administrative_note",
     "check_other_documents", "cc_open_edi_portal", "cc_check_contractor_id",
     "cc_close_edi_portal"}

\* C30: a call that changes the patient's record (patient information,
\* event, booking reminders, documents, journal notes, the EDI send) is made
\* only after every initialization check has been called and has returned;
\* a run in which an initialization check raises makes none of these calls.
NoChangeBeforeChecksPass ==
    /\ \A i \in DOMAIN x_calls :
          x_calls[i] \in ChangingCalls =>
             /\ \A c \in CheckCalls : \E j \in 1..(i - 1) : x_calls[j] = c
             /\ x_err_at = 0 \/ x_err_at >= i
    /\ x_first.step \in CheckCalls =>
          \A i \in DOMAIN x_calls : x_calls[i] \notin ChangingCalls

\* The check for the administrative note raised BusinessError, and the run
\* ended with the patient window closed and nothing else done.
NoChangeBeforeChecksPassWitness ==
    /\ x_pc = "done"
    /\ x_first = [step |-> "check_administrative_note", kind |-> "BusinessError"]
    /\ x_outcome = "BusinessError"
    /\ x_calls[Len(x_calls)] = "close_patient_window"
    /\ x_calls[Len(x_calls) - 1] = "check_administrative_note"

-----------------------------------------------------------------------------
\* The handler at rest, for the specifications of the other parts.
HandlerIdle ==
    /\ pipeline = EdiPipeline
    /\ h_pc = "idle"
    /\ idx = 0
    /\ skip_steps = FALSE
    /\ receipt_path = "None"
    /\ executed = << >>
    /\ retval = [i \in 1..MaxPipelineLen |-> "-"]
    /\ failed_step = 0
    /\ h_result = "-"
    /\ h_error = "-"

\* No run of process, for the specifications of the other parts.
ProcIdle == ProcInit(FALSE)

\* No call of wait_for_control, for the specifications of the other parts.
WaitIdle ==
    /\ w_pc = "idle"
    /\ w_clock = 0
    /\ w_end_time = 0
    /\ w_present = FALSE
    /\ w_attempt = 0
    /\ w_first_hit = 0
    /\ w_failed = FALSE
    /\ w_result = "-"

\* No call of wait_for_control_to_disappear.
DisappearIdle ==
    /\ d_pc = "idle"
    /\ d_clock = 0
    /\ d_end_time = 0
    /\ d_present = FALSE
    /\ d_seen_absent = FALSE
    /\ d_result = "-"

\* No call of edi_portal_upload_files.
UploadIdle ==
    /\ u_pc = "idle"
    /\ u_timeout = 0
    /\ element_gone = FALSE
    /\ u_checks = 0
    /\ u_found = 0
    /\ u_result = "-"

\* No call of edi_portal_get_journal_sent_receip.
ScanIdle ==
    /\ r_pc = "idle"
    /\ table = << >>
    /\ row_count = 0
    /\ row = 0
    /\ latest_matching_row = None
    /\ latest_date = None
    /\ success_message = FALSE
    /\ r_clicked = None
    /\ r_result = "-"

\* No wait for a downloaded receipt.
DownloadIdle ==
    /\ f_pc = "idle"
    /\ f_clock = 0
    /\ start_time = 0
    /\ f_file = FALSE
    /\ f_polls = 0
    /\ f_first_seen = 0
    /\ f_result = "-"

\* No run of process followed call by call.
RunIdle ==
    /\ x_pc = "idle"
    /\ queue_element = "None"
    /\ x_exc = "-"
    /\ x_first = NoError
    /\ x_err_at = 0
    /\ x_calls = << >>
    /\ x_unclosed = FALSE
    /\ x_outcome = "-"
    /\ x_json = NoData
    /\ queue_element_data = NoData

\* No call of process_images_threaded.
ImagesIdle ==
    /\ i_pc = "idle"
    /\ images = << >>
    /\ i_next = 1
    /\ task = [t \in ImageIds |-> "-"]
    /\ i_seen = {}
    /\ i_exc = NoExc
    /\ i_left = {}

\* No call of split_zip.
ZipIdle ==
    /\ z_pc = "idle"
    /\ file_infos = << >>
    /\ max_size = 0
    /\ z_i = 1
    /\ buckets = << >>
    /\ current_bucket = << >>
    /\ current_size = 0

\* No call of is_under_16.
CprIdle ==
    /\ c_pc = "idle"
    /\ ssn = << >>
    /\ today = NoDate
    /\ birth_date = NoDate
    /\ c_result = "-"

\* No run against the portal.
PortalIdle ==
    /\ m_pc = "idle"
    /\ m_table = << >>
    /\ m_now = << >>
    /\ m_contractor = "-"
    /\ m_run = 0
    /\ m_check = "-"
    /\ m_timed_out = FALSE
    /\ m_written = None
    /\ m_sends = << >>
    /\ m_result = "-"

\* No call of initalization_checks.
ChecksIdle ==
    /\ k_pc = "idle"
    /\ k_db = << >>
    /\ k_calls = << >>
    /\ k_code = "-"
    /\ k_result = "-"
    /\ k_technical = FALSE

\* Every part at rest but the ones named.
IdleBut(parts) ==
    /\ "handler" \in parts \/ HandlerIdle
    /\ "process" \in parts \/ ProcIdle
    /\ "wait" \in parts \/ WaitIdle
    /\ "disappear" \in parts \/ DisappearIdle
    /\ "upload" \in parts \/ UploadIdle
    /\ "scan" \in parts \/ ScanIdle
    /\ "download" \in parts \/ DownloadIdle
    /\ "run" \in parts \/ RunIdle
    /\ "images" \in parts \/ ImagesIdle
    /\ "zip" \in parts \/ ZipIdle
    /\ "cpr" \in parts \/ CprIdle
    /\ "portal" \in parts \/ PortalIdle
    /\ "checks" \in parts \/ ChecksIdle

\* One call of edi_portal_handler.
Init == HandlerInit /\ IdleBut({"handler"})

Next == HandlerNext

Spec == Init /\ [][Next]_vars

\* Runs of process one after the other on one worker.
InitProcess == ProcInit(FALSE) /\ IdleBut({"process"})

SpecProcess == InitProcess /\ [][ProcNext]_vars

\* One run of process on each of two workers, at once.
InitConcurrent == ProcInit(TRUE) /\ IdleBut({"process"})

SpecConcurrent == InitConcurrent /\ [][ProcNext]_vars

\* One call of wait_for_control; the call's own steps are taken as long as
\* one is possible (a Python thread that is not blocked runs on).
InitWait == WaitInit /\ IdleBut({"wait"})

SpecWait == InitWait /\ [][WaitNext]_vars /\ WF_vars(WaitStep)

\* One call of wait_for_control_to_disappear.
InitDisappear == DisappearInit /\ IdleBut({"disappear"})

SpecDisappear == InitDisappear /\ [][DisappearNext]_vars

\* One call of edi_portal_upload_files, from the confirmed file dialog on.
InitUpload == UploadInit /\ IdleBut({"upload"})

SpecUpload == InitUpload /\ [][UploadNext]_vars

\* One call of edi_portal_get_journal_sent_receip, up to the click on
\* "Gem som PDF".
InitScan == ScanInit /\ IdleBut({"scan"})

SpecScan == InitScan /\ [][ScanNext]_vars

\* One call of edi_portal_get_journal_sent_receip, from the click on
\* "Gem som PDF" on; the function's own steps are taken as long as one is
\* possible.
InitDownload == DownloadInit /\ IdleBut({"download"})

SpecDownload == InitDownload /\ [][DownloadNext]_vars /\ WF_vars(DownloadStep)

\* One run of process, every call free to return or to raise.
InitRun == RunInit /\ IdleBut({"run"})

SpecRun == InitRun /\ [][RunNext]_vars

\* One call of process_images_threaded.
InitImages == ImagesInit /\ IdleBut({"images"})

SpecImages == InitImages /\ [][ImagesNext]_vars

\* One call of split_zip.
InitZip == ZipInit /\ IdleBut({"zip"})

SpecZip == InitZip /\ [][ZipNext]_vars

\* One call of is_under_16.
InitCpr == CprInit /\ IdleBut({"cpr"})

SpecCpr == InitCpr /\ [][CprNext]_vars

\* Sequential runs of edi_portal_handler for one patient.
InitPortal == PortalInit /\ IdleBut({"portal"})

SpecPortal == InitPortal /\ [][PortalNext]_vars

\* One call of initalization_checks.
InitChecks == ChecksInit /\ IdleBut({"checks"})

SpecChecks == InitChecks /\ [][ChecksNext]_vars

====
